---- MODULE Spec2Model ----
(***************************************************************************)
(* A model of eprofiler-tui: the persistent symbol store (storage.rs), the *)
(* OTLP ingestion pipeline (grpc.rs), the flame-graph tree and the state   *)
(* controller with its event bus (tui/, main.rs).                          *)
(*                                                                         *)
(* Conventions.  A string that the program splits at '/' is modelled as    *)
(* the sequence of its '/'-separated segments; every other string is a     *)
(* TLA+ string.  A Vec is a sequence (1-based here, 0-based in the code),  *)
(* a HashMap a function, a partition of the LSM engine a set of rows with  *)
(* at most one row per key.                                                *)
(***************************************************************************)
EXTENDS Integers, Sequences, FiniteSets, TLC

VARIABLES
    catalog,         \* FileId -> FileSym: what extract_symbols yields for each executable
    ranges,          \* SymbolStore.ranges partition
    strings,         \* SymbolStore.strings partition
    files,           \* SymbolStore.files partition
    basename_index,  \* SymbolStore.basename_index
    workers,         \* the symbol-load / symbol-removal worker threads of main.rs
    fg,              \* State.fg, the flame-graph tab
    fresh,           \* the flame graph and sample count that a process_export call builds
    exports,         \* the process_export calls that spawn_blocking runs
    channel,         \* the events sent on the mpsc channel and not yet received
    known_basenames, \* ProfilesServer.known_basenames
    received,        \* history: the events the main loop has received, oldest first
    exe,             \* State.exe, the executables tab
    flamescope,      \* State.fs, the flamescope tab
    recorded,        \* history: the timestamps recorded since the last reset, in the
                     \* order record_timestamps visited them, each with its thread
    seen,            \* history: the keys of the entries recorded since the last reset
    spawned,         \* the name each worker thread of main.rs carries for its event
    area,            \* the Rect the flamescope grid is laid out in
    layout,          \* the Option<FlamescopeLayout> that FlamescopeLayout::new returned
    running,         \* State.running
    active_tab,      \* State.active_tab
    action,          \* the Action that the last State::handle_key returned
    events_running,  \* EventHandler.running, the AtomicBool shared with the input thread
    handler,         \* the input thread of EventHandler::new: its position, the time
                     \* since last_tick, the timeout of its poll, and whether it has
                     \* loaded a false running flag
    terminal         \* the crossterm events waiting to be read, and how many arrived

storeVars == <<catalog, ranges, strings, files, basename_index, workers>>
flameVars == <<fg, fresh>>
busVars == <<exports, channel, known_basenames, received, exe, spawned>>
scopeVars == <<flamescope, recorded, seen>>
tuiVars == <<area, layout, running, active_tab, action, events_running, handler, terminal>>
vars == <<catalog, ranges, strings, files, basename_index, workers, fg, fresh,
          exports, channel, known_basenames, received, exe, flamescope, recorded, seen,
          spawned, area, layout, running, active_tab, action, events_running, handler,
          terminal>>

(***************************************************************************)
(* Bounds of the model.                                                    *)
(***************************************************************************)
MaxAddr == 2      \* addresses are 0..MaxAddr; MaxAddr stands for u64::MAX
MaxLength == 2    \* range lengths are 0..MaxLength
MaxDepth == 1     \* inline depths are 0..MaxDepth; MaxDepth stands for u16::MAX
MaxRanges == 2    \* a FileSym of the lookup specification has at most MaxRanges ranges
MaxTotal == 3     \* the sample weights of a run add up to at most MaxTotal
MaxProfiles == 2  \* the flame-graph tab merges at most MaxProfiles profiles between resets
MaxBatch == 2     \* an entry of record_timestamps carries at most MaxBatch timestamps
MaxRecorded == 3  \* at most MaxRecorded timestamps are recorded between two resets
MaxNames == 2     \* record_timestamps is called while thread_names holds at most MaxNames names
MaxEvents == 2    \* the executables specification sends at most MaxEvents events
MaxSamples == 2   \* an export of the sample specification carries at most MaxSamples samples
MaxHeight == 25   \* the areas of the layout specification are at most MaxHeight rows high
MaxInput == 1     \* an overlay of the key specification holds at most MaxInput characters
MaxMerges == 1    \* the key specification merges at most MaxMerges profile updates per reset
MaxCursorMerges == 2 \* the cursor specification merges at most MaxCursorMerges updates per reset
MaxRow == 1       \* the flamescope cursor of the key specification stays within rows 0..MaxRow
TickRate == 2     \* the tick rate of the input specification, in steps of its clock
MaxArrived == 2   \* at most MaxArrived crossterm events arrive at the terminal
MaxSent == 3      \* the input thread starts a round only below MaxSent events in the channel
MaxY == 1         \* and start at most MaxY rows below the top of the terminal

FileIds == {1, 2}
Workers == {1, 2}
NoFile == 0

Max(a, b) == IF a >= b THEN a ELSE b
Min(a, b) == IF a <= b THEN a ELSE b

\* The distance between two timestamps.
absolute_difference(a, b) == IF a >= b THEN a - b ELSE b - a

\* u64::saturating_sub
saturating_sub(a, b) == IF a >= b THEN a - b ELSE 0

RECURSIVE SeqSum(_)
SeqSum(s) == IF s = <<>> THEN 0 ELSE Head(s) + SeqSum(Tail(s))

Range(s) == {s[i] : i \in DOMAIN s}

(***************************************************************************)
(* symbolizer.rs: FileSym and SymRange.                                    *)
(***************************************************************************)
FuncNames == <<"foo", "bar", "baz", "qux">>

SymRange == [va_start : 0..MaxAddr, length : 0..MaxLength, depth : 0..MaxDepth]

\* extract_symbols sorts the ranges by (va_start, depth) ascending.
RangeOrdered(a, b) ==
    \/ a.va_start < b.va_start
    \/ a.va_start = b.va_start /\ a.depth <= b.depth

SortedRanges(rs) == \A i, j \in DOMAIN rs : i < j => RangeOrdered(rs[i], rs[j])

\* The FileSym built from a sorted sequence of address ranges: the i-th range
\* names the i-th interned string.
MkFileSym(fid, rs) ==
    [file_id |-> fid,
     ranges  |-> [i \in DOMAIN rs |->
                    [va_start |-> rs[i].va_start, length |-> rs[i].length,
                     func |-> i - 1, depth |-> rs[i].depth]],
     strings |-> [i \in DOMAIN rs |-> FuncNames[((i - 1) % Len(FuncNames)) + 1]]]

RangeSeqs == {rs \in UNION {[1..n -> SymRange] : n \in 0..MaxRanges} : SortedRanges(rs)}

\* The executable with file id 2 in the lookup specification: an outer function
\* over [1, 2) with a function inlined over the same interval.
OtherRanges ==
    <<[va_start |-> 1, length |-> 1, depth |-> 0],
      [va_start |-> 1, length |-> 1, depth |-> 1]>>

\* The executables of the store specifications: file 1 is one function with an
\* inlined callee, file 2 a single function.
SmallRanges(fid) ==
    IF fid = 1
    THEN <<[va_start |-> 0, length |-> 2, depth |-> 0],
           [va_start |-> 1, length |-> 1, depth |-> 1]>>
    ELSE <<[va_start |-> 1, length |-> 1, depth |-> 0]>>

(***************************************************************************)
(* Paths (std::path::Path) are sequences of components.                    *)
(***************************************************************************)
Paths == {<<"usr", "bin", "app">>, <<"opt", "app">>, <<"usr", "bin", "tool">>}

\* Path::file_name(): the last component
FileNameOf(path) == IF path = <<>> THEN "" ELSE path[Len(path)]

\* The segments of a string split at '/': a file name holds no '/'.
Segments(name) == <<name>>

\* storage.rs basename_of: path.rsplit('/').next()
basename_of(segs) == segs[Len(segs)]

(***************************************************************************)
(* storage.rs: keys, rows and the partitions.                              *)
(***************************************************************************)
RangeKey(file_id, va_start, depth) ==
    [file_id |-> file_id, va_start |-> va_start, depth |-> depth]

KeyOf(row) == RangeKey(row.file_id, row.va_start, row.depth)

\* Big-endian fixed-width keys: byte order is the order of (file_id, va_start, depth).
KeyLE(a, b) ==
    \/ a.file_id < b.file_id
    \/ a.file_id = b.file_id /\ a.va_start < b.va_start
    \/ a.file_id = b.file_id /\ a.va_start = b.va_start /\ a.depth <= b.depth

RangeRow(fid, r) ==
    [file_id |-> fid, va_start |-> r.va_start, depth |-> r.depth,
     length |-> r.length, func_ref |-> r.func]

StringRow(fid, idx, s) == [file_id |-> fid, idx |-> idx, value |-> s]

FileRow(fid, num_ranges, file_name) ==
    [file_id |-> fid, num_ranges |-> num_ranges, file_name |-> file_name]

\* batch.insert on the ranges partition: a later insert of a key replaces the row.
RECURSIVE InsertRanges(_, _, _)
InsertRanges(part, fid, rs) ==
    IF rs = <<>> THEN part
    ELSE LET row == RangeRow(fid, Head(rs))
         IN InsertRanges({x \in part : KeyOf(x) # KeyOf(row)} \cup {row}, fid, Tail(rs))

InsertStrings(part, fid, ss) ==
    {x \in part : ~(x.file_id = fid /\ x.idx \in {i - 1 : i \in DOMAIN ss})}
        \cup {StringRow(fid, i - 1, ss[i]) : i \in DOMAIN ss}

InsertFile(part, row) == {x \in part : x.file_id # row.file_id} \cup {row}

(***************************************************************************)
(* SymbolStore::lookup.                                                    *)
(***************************************************************************)
\* u64::saturating_add
saturating_add(a, b) == IF a + b > MaxAddr THEN MaxAddr ELSE a + b

\* resolve_string: the interned string, "[unknown]" when the key is absent
resolve_string(strs, fid, idx) ==
    IF \E x \in strs : x.file_id = fid /\ x.idx = idx
    THEN (CHOOSE x \in strs : x.file_id = fid /\ x.idx = idx).value
    ELSE "[unknown]"

ResolvedFrame(func, depth) == [func |-> func, depth |-> depth]

\* The greatest row of a non-empty set of rows, in key order.
LastRow(rows) == CHOOSE r \in rows : \A x \in rows : KeyLE(KeyOf(x), KeyOf(r))

\* A scan that goes on past a depth-0 row, down to the lower key.
RECURSIVE ReverseScanWithoutBreak(_, _, _, _, _)
ReverseScanWithoutBreak(rows, strs, fid, addr, frames) ==
    IF rows = {} THEN frames
    ELSE LET row    == LastRow(rows)
             start  == row.va_start
             end    == saturating_add(start, row.length)
             pushed == IF addr >= start /\ addr < end
                       THEN Append(frames,
                                   ResolvedFrame(resolve_string(strs, fid, row.func_ref),
                                                 row.depth))
                       ELSE frames
         IN ReverseScanWithoutBreak(rows \ {row}, strs, fid, addr, pushed)

\* The loop of lookup over the rows of the scanned interval, greatest key first:
\* push a frame when the row covers addr, stop after the first depth-0 row.
RECURSIVE ReverseScan(_, _, _, _, _)
ReverseScan(rows, strs, fid, addr, frames) ==
    IF rows = {} THEN frames
    ELSE LET row    == LastRow(rows)
             start  == row.va_start
             end    == saturating_add(start, row.length)
             pushed == IF addr >= start /\ addr < end
                       THEN Append(frames,
                                   ResolvedFrame(resolve_string(strs, fid, row.func_ref),
                                                 row.depth))
                       ELSE frames
         IN IF row.depth = 0 THEN pushed
            ELSE ReverseScan(rows \ {row}, strs, fid, addr, pushed)

\* A scan whose upper key has depth 0 in place of u16::MAX.
ScannedRowsUpToDepthZero(part, fid, addr) ==
    LET lower == RangeKey(fid, 0, 0)
        upper == RangeKey(fid, addr, 0)
    IN {x \in part : KeyLE(lower, KeyOf(x)) /\ KeyLE(KeyOf(x), upper)}

\* self.ranges.range(lower..=upper)
ScannedRows(part, fid, addr) ==
    LET lower == RangeKey(fid, 0, 0)
        upper == RangeKey(fid, addr, MaxDepth)
    IN {x \in part : KeyLE(lower, KeyOf(x)) /\ KeyLE(KeyOf(x), upper)}

\* The frames in the order the scan pushed them.
LookupFrames(part, strs, fid, addr) ==
    ReverseScan(ScannedRows(part, fid, addr), strs, fid, addr, <<>>)

SortedByDepth(fs) == \A i, j \in DOMAIN fs : i < j => fs[i].depth <= fs[j].depth

Arrangements(s) ==
    {[i \in DOMAIN s |-> s[p[i]]] :
        p \in {q \in [DOMAIN s -> DOMAIN s] : \A i, j \in DOMAIN s : q[i] = q[j] => i = j}}

\* frames.sort_unstable_by_key(|f| f.depth): every arrangement of the pushed
\* frames that ascends in depth is a possible result (frames of equal depth may
\* come in either order).
lookup(part, strs, fid, addr) ==
    {fs \in Arrangements(LookupFrames(part, strs, fid, addr)) : SortedByDepth(fs)}

\* file_id_for_basename
file_id_for_basename(index, basename) ==
    IF basename \in DOMAIN index THEN index[basename] ELSE NoFile

\* list_files with parse_file_meta: the rows of the files partition, by key
list_files(part) == part

(***************************************************************************)
(* SymbolStore::store_file_symbols and remove_file_symbols, step by step.  *)
(***************************************************************************)
\* A batch whose files row counts the depth-0 ranges only.
StoreCommittedCountingFunctions(rgs, strs, fls, file_sym, path) ==
    LET fid        == file_sym.file_id
        file_name  == FileNameOf(path)
        num_ranges == Cardinality({i \in DOMAIN file_sym.ranges :
                                      file_sym.ranges[i].depth = 0})
    IN [ranges  |-> InsertRanges(rgs, fid, file_sym.ranges),
        strings |-> InsertStrings(strs, fid, file_sym.strings),
        files   |-> InsertFile(fls, FileRow(fid, num_ranges, file_name))]

\* The engine state after the batch of store_file_symbols has committed.
StoreCommitted(rgs, strs, fls, file_sym, path) ==
    LET fid        == file_sym.file_id
        file_name  == FileNameOf(path)
        num_ranges == Len(file_sym.ranges)
    IN [ranges  |-> InsertRanges(rgs, fid, file_sym.ranges),
        strings |-> InsertStrings(strs, fid, file_sym.strings),
        files   |-> InsertFile(fls, FileRow(fid, num_ranges, file_name))]

\* self.basename_index.write().insert(bname, file_id)
IndexInsert(index, path, fid) ==
    LET bname == basename_of(Segments(FileNameOf(path)))
    IN [b \in DOMAIN index \cup {bname} |-> IF b = bname THEN fid ELSE index[b]]

\* An eviction that keeps every entry.
IndexRetainEverything(index, fid) == index

\* self.basename_index.write().retain(|_, v| *v != file_id)
IndexRetain(index, fid) ==
    [b \in {x \in DOMAIN index : index[x] # fid} |-> index[b]]

\* self.ranges.prefix(fid) / self.strings.prefix(fid): the keys seen by the scan
PrefixKeys(part, fid) == {x \in part : x.file_id = fid}

Snapshot == [ranges |-> ranges, strings |-> strings, files |-> files,
             basename_index |-> basename_index]

NoSnapshot == [ranges |-> {}, strings |-> {}, files |-> {}, basename_index |-> <<>>]

\* A worker thread: the operation it runs, where it stands in it, the keys its
\* removal batch holds, its result, and the store as it was when the call began.
Idle == [op |-> "idle", pc |-> "idle", fid |-> NoFile, path |-> <<>>,
         batch_ranges |-> {}, batch_strings |-> {}, ok |-> TRUE, pre |-> NoSnapshot]

\* A worker calls store_file_symbols(catalog[fid], path); pre records the store
\* as it is at the call, for the claims that compare with it.
CallStore(w, fid, path, pre) ==
    /\ workers[w].op = "idle"
    /\ workers' = [workers EXCEPT ![w] =
            [Idle EXCEPT !.op = "store", !.pc = "commit", !.fid = fid, !.path = path,
                         !.pre = pre]]
    /\ UNCHANGED <<catalog, ranges, strings, files, basename_index>>

\* A store_file_symbols that updates the basename index before it commits.
StoreCommitAfterIndex(w) ==
    /\ workers[w].op = "store" /\ workers[w].pc = "commit"
    /\ basename_index' = IndexInsert(basename_index, workers[w].path, workers[w].fid)
    /\ \E committed \in BOOLEAN :
          IF committed
          THEN LET after == StoreCommitted(ranges, strings, files,
                                           catalog[workers[w].fid], workers[w].path)
               IN /\ ranges' = after.ranges
                  /\ strings' = after.strings
                  /\ files' = after.files
                  /\ workers' = [workers EXCEPT ![w].pc = "index"]
          ELSE /\ workers' = [workers EXCEPT ![w].pc = "done", ![w].ok = FALSE]
               /\ UNCHANGED <<ranges, strings, files>>
    /\ UNCHANGED catalog

\* batch.commit()? of store_file_symbols: the whole batch becomes visible, or
\* the engine fails, nothing is written and the call returns the error.
StoreCommit(w) ==
    /\ workers[w].op = "store" /\ workers[w].pc = "commit"
    /\ \E committed \in BOOLEAN :
          IF committed
          THEN LET after == StoreCommitted(ranges, strings, files,
                                           catalog[workers[w].fid], workers[w].path)
               IN /\ ranges' = after.ranges
                  /\ strings' = after.strings
                  /\ files' = after.files
                  /\ workers' = [workers EXCEPT ![w].pc = "index"]
          ELSE /\ workers' = [workers EXCEPT ![w].pc = "done", ![w].ok = FALSE]
               /\ UNCHANGED <<ranges, strings, files>>
    /\ UNCHANGED <<catalog, basename_index>>

\* The index update that follows a successful commit, and Ok(()).
StoreIndex(w) ==
    /\ workers[w].op = "store" /\ workers[w].pc = "index"
    /\ basename_index' = IndexInsert(basename_index, workers[w].path, workers[w].fid)
    /\ workers' = [workers EXCEPT ![w].pc = "done"]
    /\ UNCHANGED <<catalog, ranges, strings, files>>

\* A worker calls remove_file_symbols(fid).
CallRemove(w, fid, pre) ==
    /\ workers[w].op = "idle"
    /\ workers' = [workers EXCEPT ![w] =
            [Idle EXCEPT !.op = "remove", !.pc = "scan_ranges", !.fid = fid,
                         !.pre = pre]]
    /\ UNCHANGED <<catalog, ranges, strings, files, basename_index>>

\* for item in self.ranges.prefix(prefix_bytes): the keys are read now; a failed
\* read returns the error before anything is removed.
RemoveScanRanges(w) ==
    /\ workers[w].op = "remove" /\ workers[w].pc = "scan_ranges"
    /\ \E read \in BOOLEAN :
          workers' = IF read
                     THEN [workers EXCEPT ![w].pc = "scan_strings",
                                          ![w].batch_ranges =
                                              {KeyOf(x) : x \in PrefixKeys(ranges, workers[w].fid)}]
                     ELSE [workers EXCEPT ![w].pc = "done", ![w].ok = FALSE]
    /\ UNCHANGED <<catalog, ranges, strings, files, basename_index>>

\* for item in self.strings.prefix(prefix_bytes)
RemoveScanStrings(w) ==
    /\ workers[w].op = "remove" /\ workers[w].pc = "scan_strings"
    /\ \E read \in BOOLEAN :
          workers' = IF read
                     THEN [workers EXCEPT ![w].pc = "commit",
                                          ![w].batch_strings =
                                              {x.idx : x \in PrefixKeys(strings, workers[w].fid)}]
                     ELSE [workers EXCEPT ![w].pc = "done", ![w].ok = FALSE]
    /\ UNCHANGED <<catalog, ranges, strings, files, basename_index>>

\* batch.remove(&self.files, prefix_bytes); batch.commit()?: the keys collected
\* by the two scans and the files row are removed together, or nothing is.
RemoveCommit(w) ==
    /\ workers[w].op = "remove" /\ workers[w].pc = "commit"
    /\ \E committed \in BOOLEAN :
          IF committed
          THEN /\ ranges' = {x \in ranges : KeyOf(x) \notin workers[w].batch_ranges}
               /\ strings' = {x \in strings :
                                ~(x.file_id = workers[w].fid
                                  /\ x.idx \in workers[w].batch_strings)}
               /\ files' = {x \in files : x.file_id # workers[w].fid}
               /\ workers' = [workers EXCEPT ![w].pc = "index"]
          ELSE /\ workers' = [workers EXCEPT ![w].pc = "done", ![w].ok = FALSE]
               /\ UNCHANGED <<ranges, strings, files>>
    /\ UNCHANGED <<catalog, basename_index>>

\* The index eviction that follows a successful commit, and Ok(()).
RemoveIndex(w) ==
    /\ workers[w].op = "remove" /\ workers[w].pc = "index"
    /\ basename_index' = IndexRetain(basename_index, workers[w].fid)
    /\ workers' = [workers EXCEPT ![w].pc = "done"]
    /\ UNCHANGED <<catalog, ranges, strings, files>>

\* The call has returned and the worker thread ends.
WorkerExit(w) ==
    /\ workers[w].pc = "done"
    /\ workers' = [workers EXCEPT ![w] = Idle]
    /\ UNCHANGED <<catalog, ranges, strings, files, basename_index>>

NoCallRunning == \A w \in Workers : workers[w].op = "idle"

\* SymbolStore::open on a data directory: the basename index is rebuilt from
\* the files partition, in key order (a later row replaces an earlier one).
RECURSIVE OpenIndex(_, _)
OpenIndex(part, index) ==
    IF part = {} THEN index
    ELSE LET info  == CHOOSE x \in part : \A y \in part : x.file_id <= y.file_id
             bname == basename_of(Segments(info.file_name))
         IN OpenIndex(part \ {info},
                      [b \in DOMAIN index \cup {bname} |->
                          IF b = bname THEN info.file_id ELSE index[b]])

(***************************************************************************)
(* The flame-graph tree (crate::flamegraph).  A FlameNode is a record      *)
(* whose children field is the Vec of its child nodes; the FlameGraph      *)
(* holds the synthetic root, whose children are the per-thread roots.      *)
(***************************************************************************)
\* Every string that the model orders, in ascending byte order (str::cmp).
Lexicon ==
    <<"",
      "Main",
      "[unknown]",
      "[unknown]+0x0000000000000000 [Unknown]",
      "[vdso]",
      "app",
      "app+0x0000000000000001 [Native]",
      "bar [Native]",
      "do_work [Unknown]",
      "f",
      "foo [Native]",
      "foo [Native] / bar [Native] [Inline]",
      "g",
      "h",
      "libc.so.6",
      "main [Unknown]",
      "t1",
      "t2",
      "t3",
      "tool">>

StrRank(s) == CHOOSE i \in DOMAIN Lexicon : Lexicon[i] = s

FlameNode_new(name) ==
    [name |-> name, self_value |-> 0, total_value |-> 0, children |-> <<>>]

FlameGraph_new == [root |-> FlameNode_new("")]

\* The position of the child called name, or 0 when there is none.
ChildIndex(children, name) ==
    IF \E i \in DOMAIN children : children[i].name = name
    THEN CHOOSE i \in DOMAIN children : children[i].name = name
    ELSE 0

RECURSIVE add_frames(_, _, _)
add_frames(node, frames, weight) ==
    LET visited == [node EXCEPT !.total_value = @ + weight]
    IN IF frames = <<>>
       THEN [visited EXCEPT !.self_value = @ + weight]
       ELSE LET i == ChildIndex(node.children, Head(frames))
                kids == IF i = 0
                        THEN Append(node.children, FlameNode_new(Head(frames)))
                        ELSE node.children
                j == IF i = 0 THEN Len(kids) ELSE i
            IN [visited EXCEPT
                   !.children = [kids EXCEPT
                                    ![j] = add_frames(kids[j], Tail(frames), weight)]]

add_stack(graph, frames, weight) ==
    [graph EXCEPT !.root = add_frames(graph.root, frames, weight)]

RECURSIVE FlameNode_merge(_, _)
RECURSIVE MergeChildren(_, _)
FlameNode_merge(node, other) ==
    [node EXCEPT !.self_value = @ + other.self_value,
                 !.total_value = @ + other.total_value,
                 !.children = MergeChildren(node.children, other.children)]

MergeChildren(children, others) ==
    IF others = <<>>
    THEN children
    ELSE LET i == ChildIndex(children, Head(others).name)
         IN MergeChildren(
                IF i = 0
                THEN Append(children, Head(others))
                ELSE [children EXCEPT ![i] = FlameNode_merge(children[i], Head(others))],
                Tail(others))

\* The order of sort_recursive: total_value descending, then name ascending.
NodeBefore(a, b) ==
    \/ a.total_value > b.total_value
    \/ a.total_value = b.total_value /\ StrRank(a.name) < StrRank(b.name)

RECURSIVE InsertSorted(_, _)
InsertSorted(nodes, n) ==
    IF nodes = <<>> THEN <<n>>
    ELSE IF NodeBefore(n, Head(nodes)) THEN <<n>> \o nodes
    ELSE <<Head(nodes)>> \o InsertSorted(Tail(nodes), n)

RECURSIVE SortNodes(_)
SortNodes(nodes) ==
    IF nodes = <<>> THEN <<>>
    ELSE InsertSorted(SortNodes(Tail(nodes)), Head(nodes))

RECURSIVE sort_recursive(_)
sort_recursive(node) ==
    [node EXCEPT !.children =
        SortNodes([i \in DOMAIN node.children |-> sort_recursive(node.children[i])])]

(***************************************************************************)
(* The flame-graph tab (tui/state/flamegraph.rs).                          *)
(***************************************************************************)
(***************************************************************************)
(* Keys and typed text (crossterm KeyEvent, String).  A key is the record  *)
(* of its KeyCode, the character of a KeyCode::Char ("" for the other      *)
(* codes) and whether its modifiers contain CONTROL.  A typed text is the  *)
(* sequence of its characters; Chars gives the characters of the names of  *)
(* the model, and to_lowercase is applied character by character.          *)
(***************************************************************************)
KeyEvent(code, c, ctrl) == [code |-> code, c |-> c, ctrl |-> ctrl]

Code(code) == KeyEvent(code, "", FALSE)
Char(c) == KeyEvent("Char", c, FALSE)

IsChar(key, cs) == key.code = "Char" /\ key.c \in cs

Chars(name) ==
    CASE name = "" -> <<>>
      [] name = "Main" -> <<"M", "a", "i", "n">>
      [] name = "t1" -> <<"t", "1">>
      [] name = "t2" -> <<"t", "2">>
      [] name = "f" -> <<"f">>
      [] name = "g" -> <<"g">>
      [] name = "app" -> <<"a", "p", "p">>
      [] name = "libc.so.6" -> <<"l", "i", "b", "c", ".", "s", "o", ".", "6">>
      [] OTHER -> <<name>>

\* char::to_lowercase, for the characters of the model.
LowerChar(c) ==
    CASE c = "M" -> "m"
      [] c = "Q" -> "q"
      [] c = "G" -> "g"
      [] c = "T" -> "t"
      [] OTHER -> c

\* str::to_lowercase
to_lowercase(text) == [i \in DOMAIN text |-> LowerChar(text[i])]

\* str::contains: needle occurs in text at some position.
contains(text, needle) ==
    \E start \in 0..(Len(text) - Len(needle)) :
        \A i \in DOMAIN needle : text[start + i] = needle[i]

\* String::pop and Vec::pop: the last element goes, if there is one.
pop(text) == IF text = <<>> THEN <<>> ELSE SubSeq(text, 1, Len(text) - 1)

\* str::trim, for texts whose only whitespace character is the space.
RECURSIVE trim_start(_)
trim_start(text) ==
    IF text # <<>> /\ Head(text) = " " THEN trim_start(Tail(text)) ELSE text

RECURSIVE trim_end(_)
trim_end(text) ==
    IF text # <<>> /\ text[Len(text)] = " " THEN trim_end(pop(text)) ELSE text

trim(text) == trim_end(trim_start(text))

(***************************************************************************)
(* The search overlay of the flame-graph tab (tui/state/flamegraph.rs).    *)
(* A match is the pair of a thread name and its index among the children   *)
(* of the root.                                                            *)
(***************************************************************************)
SearchOverlay_default == [active |-> FALSE, input |-> <<>>, matches |-> <<>>, cursor |-> 0]

SearchOverlay_open == [SearchOverlay_default EXCEPT !.active = TRUE]

FlamegraphTab_default ==
    [graph |-> FlameGraph_new, frozen |-> FALSE,
     profiles_received |-> 0, samples_received |-> 0,
     scroll_y |-> 0, cursor_path |-> <<>>, zoom_path |-> <<>>,
     search |-> SearchOverlay_default]

\* A merge that takes the per-thread roots of the new graph and forgets
\* the values of its synthetic root.
FlamegraphTab_mergeThreadsOnly(tab, new_fg, samples) ==
    IF tab.frozen THEN tab
    ELSE [tab EXCEPT
             !.graph.root = sort_recursive(
                 [@ EXCEPT !.children = MergeChildren(@, new_fg.root.children)]),
             !.profiles_received = @ + 1,
             !.samples_received = @ + samples]

\* A merge that does not look at frozen.
FlamegraphTab_mergeWhileFrozen(tab, new_fg, samples) ==
    [tab EXCEPT
        !.graph.root = sort_recursive(FlameNode_merge(@, new_fg.root)),
        !.profiles_received = @ + 1,
        !.samples_received = @ + samples]

\* A merge that replaces the graph of the tab by the new one.
FlamegraphTab_mergeReplacing(tab, new_fg, samples) ==
    IF tab.frozen THEN tab
    ELSE [tab EXCEPT
             !.graph.root = sort_recursive(new_fg.root),
             !.profiles_received = @ + 1,
             !.samples_received = @ + samples]

\* A merge that leaves the children in the order the merge left them.
FlamegraphTab_mergeUnsorted(tab, new_fg, samples) ==
    IF tab.frozen THEN tab
    ELSE [tab EXCEPT
             !.graph.root = FlameNode_merge(@, new_fg.root),
             !.profiles_received = @ + 1,
             !.samples_received = @ + samples]

\* A merge that counts one sample for each profile.
FlamegraphTab_mergeCountingProfiles(tab, new_fg, samples) ==
    IF tab.frozen THEN tab
    ELSE [tab EXCEPT
             !.graph.root = sort_recursive(FlameNode_merge(@, new_fg.root)),
             !.profiles_received = @ + 1,
             !.samples_received = @ + 1]

FlamegraphTab_merge(tab, new_fg, samples) ==
    IF tab.frozen THEN tab
    ELSE [tab EXCEPT
             !.graph.root = sort_recursive(FlameNode_merge(@, new_fg.root)),
             !.profiles_received = @ + 1,
             !.samples_received = @ + samples]

FlamegraphTab_reset(tab) ==
    [tab EXCEPT !.graph = FlameGraph_new,
                !.profiles_received = 0, !.samples_received = 0,
                !.zoom_path = <<>>, !.cursor_path = <<>>, !.scroll_y = 0]

\* get_zoom_node: descend through the child names; a missing name ends the
\* descent at the deepest node reached.
RECURSIVE get_zoom_node(_, _)
get_zoom_node(node, zoom_path) ==
    IF zoom_path = <<>> THEN node
    ELSE LET i == ChildIndex(node.children, Head(zoom_path))
         IN  IF i = 0 THEN node
             ELSE get_zoom_node(node.children[i], Tail(zoom_path))

\* get_node: descend by child index; an index out of range descends nowhere.
RECURSIVE get_node(_, _)
get_node(node, cursor_path) ==
    IF cursor_path = <<>> THEN node
    ELSE IF Head(cursor_path) < Len(node.children)
         THEN get_node(node.children[Head(cursor_path) + 1], Tail(cursor_path))
         ELSE get_node(node, Tail(cursor_path))

\* collect_path_names: the scan ends at the first index that has no child.
RECURSIVE collect_path_names(_, _)
collect_path_names(node, index_path) ==
    IF index_path = <<>> \/ Head(index_path) >= Len(node.children) THEN <<>>
    ELSE LET child == node.children[Head(index_path) + 1]
         IN  <<child.name>> \o collect_path_names(child, Tail(index_path))

\* The pairs (name, index) of the children from position i on whose
\* lower-cased name contains query, every child when query is empty.
RECURSIVE MatchesFrom(_, _, _)
MatchesFrom(children, query, i) ==
    IF i > Len(children) THEN <<>>
    ELSE (IF query = <<>> \/ contains(to_lowercase(Chars(children[i].name)), query)
          THEN << <<children[i].name, i - 1>> >>
          ELSE <<>>) \o MatchesFrom(children, query, i + 1)

\* A refresh that searches the children of the zoomed node.
FlamegraphTab_refresh_searchInZoom(tab) ==
    [tab EXCEPT !.search.matches =
        MatchesFrom(get_zoom_node(tab.graph.root, tab.zoom_path).children,
                    to_lowercase(tab.search.input), 1)]

\* A refresh that compares the names as they are written.
FlamegraphTab_refresh_searchCaseSensitive(tab) ==
    [tab EXCEPT !.search.matches =
        LET children == tab.graph.root.children
            Hit(i) == tab.search.input = <<>>
                      \/ contains(Chars(children[i].name), tab.search.input)
            hits == SelectSeq([i \in DOMAIN children |-> i], Hit)
        IN  [k \in DOMAIN hits |-> <<children[hits[k]].name, hits[k] - 1>>]]

\* FlamegraphTab::refresh_search
FlamegraphTab_refresh_search(tab) ==
    [tab EXCEPT !.search.matches =
        MatchesFrom(tab.graph.root.children, to_lowercase(tab.search.input), 1)]

move_down(tab) ==
    LET zr == get_zoom_node(tab.graph.root, tab.zoom_path)
    IN  IF get_node(zr, tab.cursor_path).children # <<>>
        THEN [tab EXCEPT !.cursor_path = Append(@, 0)]
        ELSE tab

move_up(tab) == [tab EXCEPT !.cursor_path = pop(@)]

move_left(tab) ==
    IF tab.cursor_path = <<>> THEN tab
    ELSE [tab EXCEPT !.cursor_path[Len(tab.cursor_path)] = saturating_sub(@, 1)]

move_right(tab) ==
    IF tab.cursor_path = <<>> THEN tab
    ELSE LET zr == get_zoom_node(tab.graph.root, tab.zoom_path)
             sibling_count == Len(get_node(zr, pop(tab.cursor_path)).children)
             last == tab.cursor_path[Len(tab.cursor_path)]
         IN  IF last + 1 < sibling_count
             THEN [tab EXCEPT !.cursor_path[Len(tab.cursor_path)] = last + 1]
             ELSE tab

zoom_in(tab) ==
    IF tab.cursor_path = <<>> THEN tab
    ELSE LET zr == get_zoom_node(tab.graph.root, tab.zoom_path)
         IN  [tab EXCEPT !.zoom_path = @ \o collect_path_names(zr, tab.cursor_path),
                         !.cursor_path = <<>>,
                         !.scroll_y = 0]

zoom_out(tab) ==
    IF tab.zoom_path = <<>> THEN tab
    ELSE [tab EXCEPT !.zoom_path = pop(@), !.cursor_path = <<>>, !.scroll_y = 0]

\* FlamegraphTab::handle_search_key
FlamegraphTab_handle_search_key(tab, key) ==
    CASE key.code = "Esc" -> [tab EXCEPT !.search = SearchOverlay_default]
      [] key.code = "Enter" ->
            IF tab.search.cursor < Len(tab.search.matches)
            THEN [tab EXCEPT !.zoom_path = <<tab.search.matches[tab.search.cursor + 1][1]>>,
                             !.cursor_path = <<>>,
                             !.scroll_y = 0,
                             !.search = SearchOverlay_default]
            ELSE [tab EXCEPT !.search = SearchOverlay_default]
      [] key.code = "Backspace" ->
            FlamegraphTab_refresh_search(
                [tab EXCEPT !.search.input = pop(@), !.search.cursor = 0])
      [] key.code = "Up" -> [tab EXCEPT !.search.cursor = saturating_sub(@, 1)]
      [] key.code = "Down" ->
            IF tab.search.cursor + 1 < Len(tab.search.matches)
            THEN [tab EXCEPT !.search.cursor = @ + 1]
            ELSE tab
      [] key.code = "Char" ->
            FlamegraphTab_refresh_search(
                [tab EXCEPT !.search.input = Append(@, key.c), !.search.cursor = 0])
      [] OTHER -> tab

\* FlamegraphTab::handle_key
FlamegraphTab_handle_key(tab, key) ==
    IF tab.search.active THEN FlamegraphTab_handle_search_key(tab, key)
    ELSE CASE IsChar(key, {"f", " "}) -> [tab EXCEPT !.frozen = ~@]
           [] key.code = "Down" \/ IsChar(key, {"j"}) -> move_down(tab)
           [] key.code = "Up" \/ IsChar(key, {"k"}) -> move_up(tab)
           [] key.code = "Left" \/ IsChar(key, {"h"}) -> move_left(tab)
           [] key.code = "Right" \/ IsChar(key, {"l"}) -> move_right(tab)
           [] key.code = "Enter" -> zoom_in(tab)
           [] key.code \in {"Esc", "Backspace"} -> zoom_out(tab)
           [] IsChar(key, {"r"}) -> FlamegraphTab_reset(tab)
           [] IsChar(key, {"/"}) ->
                 FlamegraphTab_refresh_search([tab EXCEPT !.search = SearchOverlay_open])
           [] OTHER -> tab

(***************************************************************************)
(* OTLP ingestion (grpc.rs).  A table of the dictionary is a sequence; the *)
(* code's index i is position i + 1 here.  Every entry of string_table is  *)
(* the sequence of its '/'-separated segments, so "" is <<"">> and         *)
(* "/usr/bin/app" is <<"", "usr", "bin", "app">>.                          *)
(***************************************************************************)
\* i as usize, for an i32 i: a negative index becomes one past every table.
as_usize(i) == IF i < 0 THEN 2^30 + i ELSE i

EmptyString == <<"">>

RECURSIVE Join(_, _)
Join(parts, sep) ==
    IF parts = <<>> THEN ""
    ELSE IF Len(parts) = 1 THEN parts[1]
    ELSE parts[1] \o sep \o Join(Tail(parts), sep)

\* The text of a string_table entry.
Text(segs) == Join(segs, "/")

Reverse(s) == [i \in 1..Len(s) |-> s[Len(s) + 1 - i]]

NoValue == [kind |-> "none", s |-> ""]
StringValue(s) == [kind |-> "string", s |-> s]

KeyValueAndUnit(key_strindex, value) == [key_strindex |-> key_strindex, value |-> value]
Function(name_strindex) == [name_strindex |-> name_strindex]
Mapping(filename_strindex) == [filename_strindex |-> filename_strindex]
Line(function_index) == [function_index |-> function_index]
Location(mapping_index, address, lines, attribute_indices) ==
    [mapping_index |-> mapping_index, address |-> address,
     lines |-> lines, attribute_indices |-> attribute_indices]
Stack(location_indices) == [location_indices |-> location_indices]
Sample(stack_index, attribute_indices, values, timestamps_unix_nano) ==
    [stack_index |-> stack_index, attribute_indices |-> attribute_indices,
     values |-> values, timestamps_unix_nano |-> timestamps_unix_nano]

\* {:016x}
HexDigit(d) == <<"0", "1", "2", "3", "4", "5", "6", "7",
                 "8", "9", "a", "b", "c", "d", "e", "f">>[d + 1]

RECURSIVE HexText(_)
HexText(n) == IF n < 16 THEN HexDigit(n) ELSE HexText(n \div 16) \o HexDigit(n % 16)

RECURSIVE HexWidth(_)
HexWidth(n) == IF n < 16 THEN 1 ELSE 1 + HexWidth(n \div 16)

RECURSIVE Zeros(_)
Zeros(k) == IF k <= 0 THEN "" ELSE "0" \o Zeros(k - 1)

Hex016(n) == Zeros(16 - HexWidth(n)) \o HexText(n)

FrameTypeName(s) ==
    CASE s = "native" -> "Native"
      [] s = "kernel" -> "Kernel"
      [] s = "jvm" -> "JVM"
      [] s = "cpython" -> "Python"
      [] s \in {"php", "phpjit"} -> "PHP"
      [] s = "ruby" -> "Ruby"
      [] s = "perl" -> "Perl"
      [] s = "v8js" -> "JS"
      [] s = "dotnet" -> ".NET"
      [] s = "beam" -> "Beam"
      [] s = "go" -> "Go"
      [] OTHER -> s

\* The string value of the first usable attribute with this key, if any:
\* the loop shared by resolve_frame_type and resolve_thread_name.
RECURSIVE AttributeScan(_, _, _, _)
AttributeScan(attribute_indices, dict, key, skip_empty) ==
    IF attribute_indices = <<>>
    THEN NoValue
    ELSE LET attr_idx == as_usize(Head(attribute_indices))
             rest == AttributeScan(Tail(attribute_indices), dict, key, skip_empty)
         IN IF attr_idx = 0 \/ attr_idx >= Len(dict.attribute_table)
            THEN rest
            ELSE LET attr == dict.attribute_table[attr_idx + 1]
                     key_idx == as_usize(attr.key_strindex)
                 IN IF key_idx >= Len(dict.string_table) THEN rest
                    ELSE IF dict.string_table[key_idx + 1] # <<key>> THEN rest
                    ELSE IF attr.value.kind # "string" THEN rest
                    ELSE IF skip_empty /\ attr.value.s = "" THEN rest
                    ELSE attr.value

resolve_frame_type(location, dict) ==
    LET found == AttributeScan(location.attribute_indices, dict,
                               "profile.frame.type", FALSE)
    IN IF found.kind = "string" THEN FrameTypeName(found.s) ELSE "Unknown"

resolve_thread_name(sample, dict) ==
    LET found == AttributeScan(sample.attribute_indices, dict, "thread.name", TRUE)
    IN IF found.kind = "string" THEN found.s ELSE "[unknown]"

\* A tag that is appended in brackets even when it is empty.
format_with_tagAlways(label, tag) == label \o " [" \o tag \o "]"

format_with_tag(label, tag) ==
    IF tag = "" THEN label ELSE label \o " [" \o tag \o "]"

resolve_function_name(line, dict) ==
    LET func_idx == as_usize(line.function_index)
    IN IF func_idx = 0 \/ func_idx >= Len(dict.function_table)
       THEN "[unknown]"
       ELSE LET name_idx == as_usize(dict.function_table[func_idx + 1].name_strindex)
            IN IF /\ name_idx < Len(dict.string_table)
                  /\ dict.string_table[name_idx + 1] # EmptyString
               THEN Text(dict.string_table[name_idx + 1])
               ELSE "[unknown]"

resolve_mapping_filename(location, dict) ==
    LET mapping_idx == as_usize(location.mapping_index)
    IN IF mapping_idx = 0 \/ mapping_idx >= Len(dict.mapping_table)
       THEN "[unknown]"
       ELSE LET name_idx == as_usize(dict.mapping_table[mapping_idx + 1].filename_strindex)
            IN IF /\ name_idx < Len(dict.string_table)
                  /\ dict.string_table[name_idx + 1] # EmptyString
               THEN basename_of(dict.string_table[name_idx + 1])
               ELSE "[unknown]"

resolve_unsymbolized_label(location, dict) ==
    resolve_mapping_filename(location, dict) \o "+0x" \o Hex016(location.address)

\* symbolize_native: the function names lookup returns, <<>> for None.  The
\* result is a set: lookup may order frames of equal depth either way, and a
\* failed read of the engine (.ok()?) gives None.
symbolize_native(rgs, strs, index, location, dict) ==
    LET fid == file_id_for_basename(index, resolve_mapping_filename(location, dict))
    IN IF fid = NoFile
       THEN {<<>>}
       ELSE {[i \in DOMAIN fs |-> fs[i].func] :
                 fs \in lookup(rgs, strs, fid, location.address)} \cup {<<>>}

\* "{name} [{tag}]", with " [Inline]" after every frame but the first.
TaggedFrames(names, tag) ==
    Join([i \in DOMAIN names |->
             names[i] \o " [" \o tag \o "]" \o (IF i > 1 THEN " [Inline]" ELSE "")],
         " / ")

\* The labels pre_resolve_locations may give one location.
LocationLabels(rgs, strs, index, location, dict) ==
    LET frame_tag == resolve_frame_type(location, dict)
        unsymbolized ==
            format_with_tag(resolve_unsymbolized_label(location, dict), frame_tag)
    IN IF location.lines = <<>>
       THEN IF frame_tag = "Native"
            THEN {IF names = <<>> THEN unsymbolized ELSE TaggedFrames(names, "Native") :
                     names \in symbolize_native(rgs, strs, index, location, dict)}
            ELSE {unsymbolized}
       ELSE {TaggedFrames([i \in DOMAIN location.lines |->
                              resolve_function_name(location.lines[i], dict)],
                          frame_tag)}

\* pre_resolve_locations: every location cache it may return.
pre_resolve_locations(dict, rgs, strs, index) ==
    LET table == dict.location_table
        labels(i) == LocationLabels(rgs, strs, index, table[i], dict)
        RECURSIVE Caches(_)
        Caches(n) ==
            IF n = 0 THEN {<<>>}
            ELSE {Append(cache, label) : cache \in Caches(n - 1), label \in labels(n)}
    IN Caches(Len(table))

\* The labels of the location indices that the cache covers, in table order.
RECURSIVE CachedFrames(_, _)
CachedFrames(location_indices, location_cache) ==
    IF location_indices = <<>> THEN <<>>
    ELSE LET loc_idx == as_usize(Head(location_indices))
             rest == CachedFrames(Tail(location_indices), location_cache)
         IN IF loc_idx < Len(location_cache)
            THEN <<location_cache[loc_idx + 1]>> \o rest
            ELSE rest

\* A collapsed stack that keeps the stack table's order, leaf first.
CollapsedStackLeafFirst(sample, dict, location_cache) ==
    LET idx == as_usize(sample.stack_index)
    IN IF idx = 0 \/ idx >= Len(dict.stack_table)
       THEN <<>>
       ELSE <<resolve_thread_name(sample, dict)>>
            \o CachedFrames(dict.stack_table[idx + 1].location_indices, location_cache)

\* A collapsed stack that takes stack index 0 for a stack like the others.
CollapsedStackFromZero(sample, dict, location_cache) ==
    LET idx == as_usize(sample.stack_index)
    IN IF idx >= Len(dict.stack_table)
       THEN <<>>
       ELSE <<resolve_thread_name(sample, dict)>>
            \o Reverse(CachedFrames(dict.stack_table[idx + 1].location_indices,
                                     location_cache))

\* The closure of stack_cache.entry(..).or_insert_with: the collapsed stack
\* built for the sample that first shows a stack index.
CollapsedStack(sample, dict, location_cache) ==
    LET idx == as_usize(sample.stack_index)
    IN IF idx = 0 \/ idx >= Len(dict.stack_table)
       THEN <<>>
       ELSE <<resolve_thread_name(sample, dict)>>
            \o Reverse(CachedFrames(dict.stack_table[idx + 1].location_indices,
                                     location_cache))

\* A sample value that reads the values before the timestamps.
SampleValueFromValuesFirst(sample) ==
    IF sample.values # <<>> THEN Max(SeqSum(sample.values), 1)
    ELSE IF sample.timestamps_unix_nano # <<>> THEN Len(sample.timestamps_unix_nano)
    ELSE 1

\* let value = if .. else if .. else ..
SampleValue(sample) ==
    IF sample.timestamps_unix_nano # <<>> THEN Len(sample.timestamps_unix_nano)
    ELSE IF sample.values # <<>> THEN Max(SeqSum(sample.values), 1)
    ELSE 1

\* HashMap::entry(key).or_insert(value) and the like: the map with key set.
MapPut(map, key, value) ==
    [k \in DOMAIN map \cup {key} |-> IF k = key THEN value ELSE map[k]]

EmptyMap == <<>>

(***************************************************************************)
(* The executables tab (tui/state/executables.rs).  An entry without       *)
(* symbols has file_id NoFile and num_ranges NoRanges.                     *)
(***************************************************************************)
NoRanges == 0 - 1

ExeEntry(name, file_id, num_ranges) ==
    [name |-> name, file_id |-> file_id, num_ranges |-> num_ranges]

\* The rows of the files partition in key order, as list_files pushes them.
RECURSIVE FilesInKeyOrder(_)
FilesInKeyOrder(part) ==
    IF part = {} THEN <<>>
    ELSE LET first == CHOOSE x \in part : \A y \in part : x.file_id <= y.file_id
         IN <<first>> \o FilesInKeyOrder(part \ {first})

\* PathInput: whether the overlay is open, the text typed into it, the entry
\* it was opened for, and the completions offered for the text.
PathInput_default ==
    [active |-> FALSE, input |-> <<>>, target |-> <<>>, completions |-> <<>>,
     completion_cursor |-> 0]

PathInput_open(target) == [PathInput_default EXCEPT !.active = TRUE, !.target = target]

\* PathInput::refresh_completions; listing is what compute_path_completions
\* finds in the file system for the text at this moment.
refresh_completions(input, listing) ==
    [input EXCEPT !.completions = listing, !.completion_cursor = 0]

\* PathInput::apply_completion
apply_completion(input, listing) ==
    IF input.completion_cursor < Len(input.completions)
    THEN refresh_completions(
             [input EXCEPT !.input = input.completions[input.completion_cursor + 1]],
             listing)
    ELSE input

\* Action, the value State::handle_key returns to the main loop.
Action_None == [type |-> "None"]
Action_LoadSymbols(path, target) == [type |-> "LoadSymbols", path |-> path, target |-> target]
Action_RemoveSymbols(name, file_id) ==
    [type |-> "RemoveSymbols", name |-> name, file_id |-> file_id]

\* ExecutablesTab::from(store.list_files())
ExecutablesTab_from(exes) ==
    [list |-> [i \in DOMAIN exes |->
                  ExeEntry(exes[i].file_name, exes[i].file_id, exes[i].num_ranges)],
     cursor |-> 0, scroll |-> 0, status |-> <<>>, path_input |-> PathInput_default]

\* The order of sort_list: symbolized entries first, then by name.
EntryBefore(a, b) ==
    LET a_sym == a.num_ranges # NoRanges
        b_sym == b.num_ranges # NoRanges
    IN \/ a_sym /\ ~b_sym
       \/ a_sym = b_sym /\ StrRank(a.name) < StrRank(b.name)

RECURSIVE InsertEntry(_, _)
InsertEntry(entries, e) ==
    IF entries = <<>> THEN <<e>>
    ELSE IF ~EntryBefore(e, Head(entries))
    THEN <<Head(entries)>> \o InsertEntry(Tail(entries), e)
    ELSE <<e>> \o entries

\* Vec::sort_by, a stable sort.
RECURSIVE SortEntries(_)
SortEntries(entries) ==
    IF entries = <<>> THEN <<>>
    ELSE InsertEntry(SortEntries(SubSeq(entries, 1, Len(entries) - 1)),
                     entries[Len(entries)])

\* Iterator::position: the 0-based index of the first entry called name, or
\* Len(entries) when there is none.
PositionOf(entries, name) ==
    IF \E i \in DOMAIN entries : entries[i].name = name
    THEN (CHOOSE i \in DOMAIN entries :
              /\ entries[i].name = name
              /\ \A j \in 1..(i - 1) : entries[j].name # name) - 1
    ELSE Len(entries)

clamp_cursor(tab) ==
    IF tab.list = <<>>
    THEN [tab EXCEPT !.cursor = 0, !.scroll = 0]
    ELSE [tab EXCEPT !.cursor = Min(tab.cursor, Len(tab.list) - 1)]

\* A sort_list that leaves the cursor at its index.
sort_listKeepingIndex(tab) ==
    clamp_cursor([tab EXCEPT !.list = SortEntries(tab.list)])

sort_list(tab) ==
    LET sorted == SortEntries(tab.list)
        moved == IF tab.cursor < Len(tab.list)
                 THEN LET p == PositionOf(sorted, tab.list[tab.cursor + 1].name)
                      IN IF p < Len(sorted) THEN p ELSE tab.cursor
                 ELSE tab.cursor
    IN clamp_cursor([tab EXCEPT !.list = sorted, !.cursor = moved])

RECURSIVE PushUnknown(_, _)
PushUnknown(entries, names) ==
    IF names = <<>> THEN entries
    ELSE PushUnknown(
             IF \E i \in DOMAIN entries : entries[i].name = Head(names)
             THEN entries
             ELSE Append(entries, ExeEntry(Head(names), NoFile, NoRanges)),
             Tail(names))

merge_discovered_mappings(tab, names) ==
    sort_list([tab EXCEPT !.list = PushUnknown(tab.list, names)])

\* ExecutableInfo
ExecutableInfo(file_id, file_name, num_ranges) ==
    [file_id |-> file_id, file_name |-> file_name, num_ranges |-> num_ranges]

update_symbolized(tab, target_name, info) ==
    LET p == PositionOf(tab.list, target_name)
    IN sort_list([tab EXCEPT !.list =
           IF p < Len(tab.list)
           THEN [@ EXCEPT ![p + 1].file_id = info.file_id,
                          ![p + 1].num_ranges = info.num_ranges]
           ELSE Append(@, ExeEntry(info.file_name, info.file_id, info.num_ranges))])

clear_symbols(tab, name) ==
    LET p == PositionOf(tab.list, name)
    IN sort_list([tab EXCEPT !.list =
           IF p < Len(tab.list)
           THEN [@ EXCEPT ![p + 1].file_id = NoFile, ![p + 1].num_ranges = NoRanges]
           ELSE @])

\* The status line: the pieces of the formatted text, in a Some.
Status(pieces) == <<pieces>>

\* An Enter that loads the text as it was typed, blank or not.
PathEnterUntrimmed(tab) ==
    LET path == tab.path_input.input
        target == tab.path_input.target
    IN  [tab |-> [tab EXCEPT
                    !.status = Status(<<"Loading ",
                                        IF target # <<>> THEN target[1] ELSE path>>),
                    !.path_input = PathInput_default],
         action |-> Action_LoadSymbols(path, target)]

\* handle_path_input_key, Enter: the trimmed text is the path to load, unless
\* it is empty.
PathEnter(tab) ==
    LET path == trim(tab.path_input.input)
        target == tab.path_input.target
    IN  IF path # <<>>
        THEN [tab |-> [tab EXCEPT
                         !.status = Status(<<"Loading ",
                                             IF target # <<>> THEN target[1] ELSE path>>),
                         !.path_input = PathInput_default],
              action |-> Action_LoadSymbols(path, target)]
        ELSE [tab |-> [tab EXCEPT !.path_input = PathInput_default],
              action |-> Action_None]

\* ExecutablesTab::handle_path_input_key: the tab after the key and the
\* action returned.
handle_path_input_key(tab, key, listing) ==
    CASE key.code = "Esc" ->
            [tab |-> [tab EXCEPT !.path_input = PathInput_default], action |-> Action_None]
      [] key.code = "Enter" -> PathEnter(tab)
      [] key.code = "Backspace" ->
            [tab |-> [tab EXCEPT !.path_input =
                         refresh_completions([@ EXCEPT !.input = pop(@)], listing)],
             action |-> Action_None]
      [] key.code = "Tab" ->
            [tab |-> [tab EXCEPT !.path_input = apply_completion(@, listing)],
             action |-> Action_None]
      [] key.code = "Up" ->
            [tab |-> [tab EXCEPT !.path_input.completion_cursor = saturating_sub(@, 1)],
             action |-> Action_None]
      [] key.code = "Down" ->
            [tab |-> IF tab.path_input.completion_cursor + 1
                            < Len(tab.path_input.completions)
                     THEN [tab EXCEPT !.path_input.completion_cursor = @ + 1]
                     ELSE tab,
             action |-> Action_None]
      [] key.code = "Char" ->
            [tab |-> [tab EXCEPT !.path_input =
                         refresh_completions([@ EXCEPT !.input = Append(@, key.c)],
                                             listing)],
             action |-> Action_None]
      [] OTHER -> [tab |-> tab, action |-> Action_None]

\* ExecutablesTab::handle_key
ExecutablesTab_handle_key(tab, key, listing) ==
    IF tab.path_input.active THEN handle_path_input_key(tab, key, listing)
    ELSE CASE key.code = "Down" \/ IsChar(key, {"j"}) ->
                 [tab |-> [tab EXCEPT !.cursor = IF @ + 1 < Len(tab.list) THEN @ + 1 ELSE @],
                  action |-> Action_None]
           [] key.code = "Up" \/ IsChar(key, {"k"}) ->
                 [tab |-> [tab EXCEPT !.cursor = saturating_sub(@, 1)],
                  action |-> Action_None]
           [] key.code = "Enter" ->
                 [tab |-> IF tab.cursor < Len(tab.list)
                          THEN [tab EXCEPT !.path_input =
                                   PathInput_open(<<tab.list[tab.cursor + 1].name>>)]
                          ELSE tab,
                  action |-> Action_None]
           [] IsChar(key, {"r"}) ->
                 [tab |-> tab,
                  action |-> IF tab.cursor < Len(tab.list)
                                /\ tab.list[tab.cursor + 1].file_id # NoFile
                             THEN Action_RemoveSymbols(tab.list[tab.cursor + 1].name,
                                                       tab.list[tab.cursor + 1].file_id)
                             ELSE Action_None]
           [] IsChar(key, {"/"}) ->
                 [tab |-> [tab EXCEPT !.path_input = PathInput_open(<<>>)],
                  action |-> Action_None]
           [] OTHER -> [tab |-> tab, action |-> Action_None]

(***************************************************************************)
(* process_export, step by step.  A request is its dictionary (a sequence  *)
(* of at most one element, as every Option here) and its samples in the    *)
(* order the nested loops over resource_profiles, scope_profiles and       *)
(* profiles visit them.                                                    *)
(***************************************************************************)
Request(dictionary, samples) == [dictionary |-> dictionary, samples |-> samples]

IdleExport ==
    [pc |-> "idle", req |-> Request(<<>>, <<>>), location_cache |-> <<>>,
     stack_cache |-> EmptyMap, next |-> 1, flamegraph |-> FlameGraph_new,
     sample_count |-> 0, thread_timestamps |-> EmptyMap,
     map_next |-> 2, names |-> <<>>, response |-> <<>>]

\* The events of the channel; req names the export that sent the event and
\* is not part of the program's Event.
MappingsDiscovered(e, names) ==
    [type |-> "MappingsDiscovered", req |-> e, names |-> names,
     flamegraph |-> FlameGraph_new, samples |-> 0, timestamps |-> EmptyMap]

ProfileUpdate(e, flamegraph, samples, timestamps) ==
    [type |-> "ProfileUpdate", req |-> e, names |-> <<>>,
     flamegraph |-> flamegraph, samples |-> samples, timestamps |-> timestamps]

\* The order of the two sends that profile first, mappings after.
SendOrderProfileFirst(pc, names) ==
    CASE pc = "basenames" -> "send_profile"
      [] pc = "send_profile" -> IF names # <<>> THEN "send_mappings" ELSE "done"
      [] OTHER -> "done"

\* Where process_export goes on after unknown_basenames and after each send.
SendOrder(pc, names) ==
    CASE pc = "basenames" -> IF names # <<>> THEN "send_mappings" ELSE "send_profile"
      [] pc = "send_mappings" -> "send_profile"
      [] OTHER -> "done"

\* Leaves a loop that has nothing left to visit.
Advance(t) ==
    LET after_samples ==
            IF t.pc = "samples" /\ t.next > Len(t.req.samples)
            THEN [t EXCEPT !.pc = "basenames"]
            ELSE t
    IN IF /\ after_samples.pc = "basenames"
          /\ after_samples.map_next > Len(t.req.dictionary[1].mapping_table)
       THEN [after_samples EXCEPT !.pc = SendOrder("basenames", after_samples.names)]
       ELSE after_samples

\* A return that goes on to send an empty profile.
NoDictionarySendsProfile(t) == [t EXCEPT !.pc = "send_profile"]

\* let Some(dict) = req.dictionary.as_ref() else { return; }
NoDictionaryReturn(t) == [t EXCEPT !.pc = "done"]

\* A response that refuses a request without a dictionary.
ExportResponseNeedsDictionary(req) ==
    [ok |-> req.dictionary # <<>>, partial_success |-> <<>>]

\* Ok(Response::new(ExportProfilesServiceResponse { partial_success: None }))
ExportResponse(req) == [ok |-> TRUE, partial_success |-> <<>>]

\* ProfilesService::export: spawn_blocking(process_export), whose handle is
\* dropped, and the response, which does not wait for the call.
ExportCall(e, req) ==
    /\ exports[e].pc = "idle"
    /\ exports' = [exports EXCEPT ![e] =
           [IdleExport EXCEPT !.pc = "start", !.req = req,
                              !.response = <<ExportResponse(req)>>]]
    /\ UNCHANGED <<channel, known_basenames, received, exe, fg>>

\* The head of process_export, down to pre_resolve_locations.
ExportBegin(e) ==
    LET t == exports[e]
    IN /\ t.pc = "start"
       /\ IF t.req.dictionary = <<>>
          THEN exports' = [exports EXCEPT ![e] = NoDictionaryReturn(t)]
          ELSE \E cache \in pre_resolve_locations(t.req.dictionary[1],
                                                  ranges, strings, basename_index) :
                   exports' = [exports EXCEPT ![e] =
                       Advance([t EXCEPT !.pc = "samples", !.location_cache = cache])]
       /\ UNCHANGED <<channel, known_basenames, received, exe, fg>>

\* One turn of the loop over the samples.
ExportSample(e) ==
    LET t == exports[e]
    IN /\ t.pc = "samples"
       /\ LET sample == t.req.samples[t.next]
              dict == t.req.dictionary[1]
              cache == IF sample.stack_index \in DOMAIN t.stack_cache
                       THEN t.stack_cache
                       ELSE MapPut(t.stack_cache, sample.stack_index,
                                   CollapsedStack(sample, dict, t.location_cache))
              stack == cache[sample.stack_index]
              value == SampleValue(sample)
              stamps == sample.timestamps_unix_nano
              listed == IF stack[1] \in DOMAIN t.thread_timestamps
                        THEN t.thread_timestamps[stack[1]]
                        ELSE <<>>
          IN exports' = [exports EXCEPT ![e] = Advance(
                 IF stack = <<>>
                 THEN [t EXCEPT !.stack_cache = cache, !.next = @ + 1]
                 ELSE [t EXCEPT
                          !.stack_cache = cache,
                          !.next = @ + 1,
                          !.thread_timestamps =
                              IF stamps # <<>>
                              THEN MapPut(@, stack[1], listed \o stamps)
                              ELSE @,
                          !.flamegraph = add_stack(@, stack, value),
                          !.sample_count = @ + value])]
       /\ UNCHANGED <<channel, known_basenames, received, exe, fg>>

\* str::starts_with('['), for the basenames of the model.
StartsWithBracket(s) == s \in {"[vdso]", "[unknown]"}

\* unknown_basenames, the test of one mapping under the read lock: whether
\* its file name is a usable string that the known set does not hold and
\* whose basename is neither empty nor bracketed.
MappingIsNew(known, dict, mapping) ==
    LET name_idx == as_usize(mapping.filename_strindex)
    IN /\ name_idx # 0
       /\ name_idx < Len(dict.string_table)
       /\ LET full_path == dict.string_table[name_idx + 1]
          IN /\ full_path # EmptyString
             /\ full_path \notin known
             /\ basename_of(full_path) # ""
             /\ ~StartsWithBracket(basename_of(full_path))

\* known.read().unwrap().contains(full_path), with the tests around it.
ExportMappingCheck(e) ==
    LET t == exports[e]
        dict == t.req.dictionary[1]
    IN /\ t.pc = "basenames"
       /\ exports' = [exports EXCEPT ![e] =
              IF MappingIsNew(known_basenames, dict, dict.mapping_table[t.map_next])
              THEN [t EXCEPT !.pc = "basename_insert"]
              ELSE Advance([t EXCEPT !.map_next = @ + 1])]
       /\ UNCHANGED <<channel, known_basenames, received, exe, fg>>

\* known.write().unwrap().insert(full_path); names.push(basename).
ExportMappingInsert(e) ==
    LET t == exports[e]
        dict == t.req.dictionary[1]
        full_path ==
            dict.string_table[as_usize(dict.mapping_table[t.map_next].filename_strindex) + 1]
    IN /\ t.pc = "basename_insert"
       /\ known_basenames' = known_basenames \cup {full_path}
       /\ exports' = [exports EXCEPT ![e] =
              Advance([t EXCEPT !.pc = "basenames",
                                !.map_next = @ + 1,
                                !.names = Append(@, basename_of(full_path))])]
       /\ UNCHANGED <<channel, received, exe, fg>>

\* event_tx.send(Event::MappingsDiscovered(basenames))
ExportSendMappings(e) ==
    LET t == exports[e]
    IN /\ t.pc = "send_mappings"
       /\ channel' = Append(channel, MappingsDiscovered(e, t.names))
       /\ exports' = [exports EXCEPT ![e].pc = SendOrder("send_mappings", t.names)]
       /\ UNCHANGED <<known_basenames, received, exe, fg>>

\* event_tx.send(Event::ProfileUpdate { .. })
ExportSendProfile(e) ==
    LET t == exports[e]
    IN /\ t.pc = "send_profile"
       /\ channel' = Append(channel,
              ProfileUpdate(e, t.flamegraph, t.sample_count, t.thread_timestamps))
       /\ exports' = [exports EXCEPT ![e].pc = SendOrder("send_profile", t.names)]
       /\ UNCHANGED <<known_basenames, received, exe, fg>>

ExportStep(e) ==
    \/ ExportBegin(e)
    \/ ExportSample(e)
    \/ ExportMappingCheck(e)
    \/ ExportMappingInsert(e)
    \/ ExportSendMappings(e)
    \/ ExportSendProfile(e)

\* Event::SymbolsLoaded: info is Ok(info) as <<info>> and Err(err) as <<>>.
SymbolsLoaded(target_name, info, err) ==
    [type |-> "SymbolsLoaded", req |-> 0, target_name |-> target_name,
     info |-> info, err |-> err]

\* Event::SymbolsRemoved: error is an Option.
SymbolsRemoved(name, error) ==
    [type |-> "SymbolsRemoved", req |-> 0, name |-> name, error |-> error]

\* The main loop: tui.events.next() and the arm of the match for the event.
\* The ProfileUpdate arm calls state.fg.merge and nothing else; no arm calls
\* record_timestamps.
MainReceive ==
    /\ channel # <<>>
    /\ LET event == Head(channel)
       IN /\ channel' = Tail(channel)
          /\ received' = Append(received, [type |-> event.type, req |-> event.req])
          /\ CASE event.type = "ProfileUpdate" ->
                    /\ fg' = FlamegraphTab_merge(fg, event.flamegraph, event.samples)
                    /\ UNCHANGED exe
               [] event.type = "MappingsDiscovered" ->
                    /\ exe' = merge_discovered_mappings(exe, event.names)
                    /\ UNCHANGED fg
               [] event.type = "SymbolsLoaded" ->
                    /\ exe' = IF event.info # <<>>
                              THEN update_symbolized(
                                       [exe EXCEPT !.status =
                                           Status(<<"Loaded ", event.info[1].num_ranges,
                                                    " symbols for ", event.target_name>>)],
                                       event.target_name, event.info[1])
                              ELSE [exe EXCEPT !.status =
                                       Status(<<"Error loading ", event.target_name,
                                                ": ", event.err>>)]
                    /\ UNCHANGED fg
               [] event.type = "SymbolsRemoved" ->
                    /\ exe' = clear_symbols(
                                  [exe EXCEPT !.status =
                                      IF event.error # <<>>
                                      THEN Status(<<"Error removing ", event.name,
                                                    ": ", event.error[1]>>)
                                      ELSE Status(<<"Removed symbols for ", event.name>>)],
                                  event.name)
                    /\ UNCHANGED fg
    /\ UNCHANGED <<exports, known_basenames, flamescope, recorded, seen, spawned, tuiVars>>

(***************************************************************************)
(* The dictionary of the ingestion specifications: the one of the tests of *)
(* grpc.rs (build_dictionary), with more thread names, mappings for        *)
(* /usr/bin/app, [vdso] and /opt/app, and locations without lines: native  *)
(* ones in /usr/bin/app at addresses 1 and 2 and in [vdso], and two in     *)
(* /usr/bin/app whose frame type is the empty string and "kernel".         *)
(***************************************************************************)
Dict ==
    [string_table |-> <<EmptyString, <<"thread.name">>, <<"do_work">>, <<"main">>,
                        <<"profile.frame.type">>, <<"", "usr", "bin", "app">>,
                        <<"[vdso]">>, <<"", "opt", "app">>>>,
     attribute_table |-> <<KeyValueAndUnit(0, NoValue),
                           KeyValueAndUnit(1, StringValue("t1")),
                           KeyValueAndUnit(1, StringValue("t2")),
                           KeyValueAndUnit(1, StringValue("")),
                           KeyValueAndUnit(4, StringValue("native")),
                           KeyValueAndUnit(4, StringValue("")),
                           KeyValueAndUnit(4, StringValue("kernel"))>>,
     function_table |-> <<Function(0), Function(2), Function(3)>>,
     mapping_table |-> <<Mapping(0), Mapping(5), Mapping(6), Mapping(7)>>,
     location_table |-> <<Location(0, 0, <<>>, <<>>),
                          Location(0, 0, <<Line(1)>>, <<>>),
                          Location(0, 0, <<Line(2)>>, <<>>),
                          Location(1, 1, <<>>, <<4>>),
                          Location(1, 2, <<>>, <<4>>),
                          Location(2, 1, <<>>, <<4>>),
                          Location(1, 1, <<>>, <<5>>),
                          Location(1, 1, <<>>, <<6>>)>>,
     stack_table |-> <<Stack(<<>>), Stack(<<1, 2>>), Stack(<<3, 2, 9>>)>>]

SeqsUpTo(S, n) == UNION {[1..k -> S] : k \in 0..n}

\* The samples of the sample specification: each stack of the dictionary
\* under each choice of thread attributes, the ways to carry values and
\* timestamps, and three samples whose stack index names no stack (negative,
\* zero, and the length of the stack table).
SampleSet ==
    {Sample(si, at, <<2, 1>>, <<>>) :
        si \in {1, 2}, at \in {<<>>, <<1>>, <<3>>, <<3, 2>>}}
    \cup {Sample(1, <<1>>, <<>>, <<>>),
          Sample(1, <<1>>, <<0 - 3>>, <<>>),
          Sample(1, <<1>>, <<4>>, <<7, 5>>),
          Sample(1, <<3, 2>>, <<>>, <<5>>),
          Sample(0 - 1, <<1>>, <<2>>, <<>>),
          Sample(0, <<1>>, <<>>, <<5>>),
          Sample(3, <<1>>, <<2>>, <<7>>)}

SampleRequests ==
    {Request(<<Dict>>, ss) : ss \in SeqsUpTo(SampleSet, MaxSamples)}
    \cup {Request(<<>>, <<Sample(1, <<1>>, <<2, 1>>, <<>>)>>)}

\* The requests of the bus specification: one without a dictionary, one
\* without samples, and two that file samples under different threads.
BusRequests ==
    {Request(<<>>, <<Sample(1, <<1>>, <<2>>, <<>>)>>),
     Request(<<Dict>>, <<>>),
     Request(<<Dict>>, <<Sample(1, <<1>>, <<2>>, <<>>)>>),
     Request(<<Dict>>, <<Sample(2, <<2>>, <<>>, <<5>>)>>)}

ExportIds == {1, 2}

\* ProfilesServer::new and State::new; nothing is in the channel yet.
BusInit ==
    /\ exports = [e \in ExportIds |-> IdleExport]
    /\ channel = <<>>
    /\ known_basenames = {}
    /\ received = <<>>
    /\ exe = ExecutablesTab_from(FilesInKeyOrder(list_files(files)))
    /\ spawned = [w \in Workers |-> ""]

(***************************************************************************)
(* The flamescope tab (tui/state/flamescope.rs).  A column is the array of *)
(* its SUBSECOND_ROWS cells; the code's row r is position r + 1, and its   *)
(* column c position c + 1.                                                *)
(***************************************************************************)
SUBSECOND_ROWS == 10
NS_PER_SEC == 1000000000
NS_PER_ROW == NS_PER_SEC \div SUBSECOND_ROWS

EmptyColumn == [r \in 1..SUBSECOND_ROWS |-> 0]

\* ThreadSearch: the search overlay of the flamescope; a match is a thread name.
ThreadSearch_default == [active |-> FALSE, input |-> <<>>, matches |-> <<>>, cursor |-> 0]

ThreadSearch_open == [ThreadSearch_default EXCEPT !.active = TRUE]

FlamescopeTab_default ==
    [epoch_ns |-> <<>>, columns |-> <<>>, threads |-> EmptyMap, thread_names |-> <<>>,
     filter |-> <<>>, auto_scroll |-> TRUE, scroll_x |-> 0,
     cursor_col |-> 0, cursor_row |-> 0, search |-> ThreadSearch_default]

\* while columns.len() <= col { columns.push([0; SUBSECOND_ROWS]) }
RECURSIVE GrowColumns(_, _)
GrowColumns(columns, col) ==
    IF Len(columns) <= col THEN GrowColumns(Append(columns, EmptyColumn), col)
    ELSE columns

\* A cell that is marked rather than counted.
CountCellOnce(columns, col, row) ==
    [GrowColumns(columns, col) EXCEPT ![col + 1][row + 1] = 1]

\* columns[col][row] += 1, after the columns have grown to hold col.
CountCell(columns, col, row) ==
    [GrowColumns(columns, col) EXCEPT ![col + 1][row + 1] = @ + 1]

\* thread_names.binary_search(thread).unwrap_or_else(|e| e) on the sorted
\* list: the number of names that come before thread.
InsertPosition(thread_names, thread) ==
    Cardinality({i \in DOMAIN thread_names :
                    StrRank(thread_names[i]) < StrRank(thread)})

\* Vec::insert(pos, name)
InsertAt(names, pos, name) ==
    SubSeq(names, 1, pos) \o <<name>> \o SubSeq(names, pos + 1, Len(names))

\* The body of the loop over the timestamps of one thread.
RecordTimestamp(tab, thread, ts) ==
    LET epoch == IF tab.epoch_ns = <<>> THEN ts ELSE tab.epoch_ns[1]
        offset == saturating_sub(ts, epoch)
        col == offset \div NS_PER_SEC
        row == Min((offset % NS_PER_SEC) \div NS_PER_ROW, SUBSECOND_ROWS - 1)
        thread_cols == IF thread \in DOMAIN tab.threads THEN tab.threads[thread] ELSE <<>>
    IN [tab EXCEPT !.epoch_ns = <<epoch>>,
                   !.columns = CountCell(@, col, row),
                   !.threads = MapPut(@, thread, CountCell(thread_cols, col, row))]

RECURSIVE RecordThread(_, _, _)
RecordThread(tab, thread, timestamps) ==
    IF timestamps = <<>> THEN tab
    ELSE RecordThread(RecordTimestamp(tab, thread, Head(timestamps)),
                      thread, Tail(timestamps))

\* record_timestamps; order is the order in which the HashMap hands out the
\* threads of entries.
RECURSIVE record_timestamps(_, _, _)
record_timestamps(tab, entries, order) ==
    IF order = <<>> THEN tab
    ELSE LET thread == Head(order)
             named == IF thread \notin DOMAIN tab.threads
                      THEN [tab EXCEPT !.thread_names =
                               InsertAt(@, InsertPosition(@, thread), thread)]
                      ELSE tab
         IN record_timestamps(RecordThread(named, thread, entries[thread]),
                              entries, Tail(order))

\* The orders in which a HashMap may hand out its keys.
KeyOrders(map) ==
    {order \in [1..Cardinality(DOMAIN map) -> DOMAIN map] :
        \A i, j \in DOMAIN order : order[i] = order[j] => i = j}

\* The timestamps in the order record_timestamps visits them, each with its
\* thread.
RECURSIVE VisitOrder(_, _)
VisitOrder(entries, order) ==
    IF order = <<>> THEN <<>>
    ELSE [i \in DOMAIN entries[Head(order)] |->
             [thread |-> Head(order), ts |-> entries[Head(order)][i]]]
         \o VisitOrder(entries, Tail(order))

\* FlamescopeTab::visible_columns
visible_columns(tab) ==
    IF tab.filter = <<>> THEN tab.columns
    ELSE IF tab.filter[1] \in DOMAIN tab.threads THEN tab.threads[tab.filter[1]]
    ELSE <<>>

\* FlamescopeTab::refresh_search
FlamescopeTab_refresh_search(tab) ==
    LET query == to_lowercase(tab.search.input)
        Hit(name) == query = <<>> \/ contains(to_lowercase(Chars(name)), query)
    IN  [tab EXCEPT !.search.matches = SelectSeq(tab.thread_names, Hit)]

\* FlamescopeTab::handle_search_key
FlamescopeTab_handle_search_key(tab, key) ==
    CASE key.code = "Esc" -> [tab EXCEPT !.search = ThreadSearch_default]
      [] key.code = "Enter" ->
            IF tab.search.cursor < Len(tab.search.matches)
            THEN [tab EXCEPT !.filter = <<tab.search.matches[tab.search.cursor + 1]>>,
                             !.cursor_col = 0,
                             !.scroll_x = 0,
                             !.auto_scroll = TRUE,
                             !.search = ThreadSearch_default]
            ELSE [tab EXCEPT !.search = ThreadSearch_default]
      [] key.code = "Backspace" ->
            FlamescopeTab_refresh_search(
                [tab EXCEPT !.search.input = pop(@), !.search.cursor = 0])
      [] key.code = "Up" -> [tab EXCEPT !.search.cursor = saturating_sub(@, 1)]
      [] key.code = "Down" ->
            IF tab.search.cursor + 1 < Len(tab.search.matches)
            THEN [tab EXCEPT !.search.cursor = @ + 1]
            ELSE tab
      [] key.code = "Char" ->
            FlamescopeTab_refresh_search(
                [tab EXCEPT !.search.input = Append(@, key.c), !.search.cursor = 0])
      [] OTHER -> tab

\* FlamescopeTab::handle_key
FlamescopeTab_handle_key(tab, key) ==
    IF tab.search.active THEN FlamescopeTab_handle_search_key(tab, key)
    ELSE CASE key.code = "Right" \/ IsChar(key, {"l"}) ->
                 LET total == Len(visible_columns(tab))
                 IN  [tab EXCEPT !.auto_scroll = FALSE,
                                 !.cursor_col = IF total > 0 /\ @ + 1 < total
                                                THEN @ + 1 ELSE @]
           [] key.code = "Left" \/ IsChar(key, {"h"}) ->
                 [tab EXCEPT !.auto_scroll = FALSE, !.cursor_col = saturating_sub(@, 1)]
           [] key.code = "Down" \/ IsChar(key, {"j"}) ->
                 [tab EXCEPT !.cursor_row = IF @ + 1 < SUBSECOND_ROWS THEN @ + 1 ELSE @]
           [] key.code = "Up" \/ IsChar(key, {"k"}) ->
                 [tab EXCEPT !.cursor_row = saturating_sub(@, 1)]
           [] IsChar(key, {"/"}) ->
                 FlamescopeTab_refresh_search([tab EXCEPT !.search = ThreadSearch_open])
           [] key.code = "Esc" -> [tab EXCEPT !.filter = <<>>, !.auto_scroll = TRUE]
           [] IsChar(key, {"G"}) \/ key.code = "End" -> [tab EXCEPT !.auto_scroll = TRUE]
           [] IsChar(key, {"r"}) -> FlamescopeTab_default
           [] OTHER -> tab

(***************************************************************************)
(* The State of the TUI (tui/state/mod.rs): the three tabs, the active tab *)
(* and the running flag.  handle_key gives the state after the key and the *)
(* action returned to the main loop.                                       *)
(***************************************************************************)
State(r, tab, f, s, e) == [running |-> r, active_tab |-> tab, fg |-> f, fs |-> s, exe |-> e]

NextTab(tab) ==
    CASE tab = "Flamegraph" -> "Flamescope"
      [] tab = "Flamescope" -> "Executables"
      [] tab = "Executables" -> "Flamegraph"

overlay_active(st) ==
    st.fg.search.active \/ st.fs.search.active \/ st.exe.path_input.active

\* A dispatch that hands every key to the flame-graph tab.
TabHandleKeyToFlamegraph(st, key, listing) ==
    [state |-> [st EXCEPT !.fg = FlamegraphTab_handle_key(@, key)],
     action |-> Action_None]

\* The keys handed to the active tab: its handle_key, and the action the
\* executables tab returns.
TabHandleKey(st, key, listing) ==
    CASE st.active_tab = "Flamegraph" ->
            [state |-> [st EXCEPT !.fg = FlamegraphTab_handle_key(@, key)],
             action |-> Action_None]
      [] st.active_tab = "Flamescope" ->
            [state |-> [st EXCEPT !.fs = FlamescopeTab_handle_key(@, key)],
             action |-> Action_None]
      [] st.active_tab = "Executables" ->
            LET handled == ExecutablesTab_handle_key(st.exe, key, listing)
            IN  [state |-> [st EXCEPT !.exe = handled.tab], action |-> handled.action]

\* A handle_key whose q and Q quit while an overlay is open.
State_handle_keyQuitInOverlay(st, key, listing) ==
    IF key.code = "Char" /\ key.c = "c" /\ key.ctrl
    THEN [state |-> [st EXCEPT !.running = FALSE], action |-> Action_None]
    ELSE IF key.code = "Tab" /\ ~overlay_active(st)
    THEN [state |-> [st EXCEPT !.active_tab = NextTab(@)], action |-> Action_None]
    ELSE IF IsChar(key, {"q", "Q"})
    THEN [state |-> [st EXCEPT !.running = FALSE], action |-> Action_None]
    ELSE TabHandleKey(st, key, listing)

\* A handle_key whose Tab rotates the tabs while an overlay is open.
State_handle_keyTabInOverlay(st, key, listing) ==
    IF key.code = "Char" /\ key.c = "c" /\ key.ctrl
    THEN [state |-> [st EXCEPT !.running = FALSE], action |-> Action_None]
    ELSE IF key.code = "Tab"
    THEN [state |-> [st EXCEPT !.active_tab = NextTab(@)], action |-> Action_None]
    ELSE IF IsChar(key, {"q", "Q"}) /\ ~overlay_active(st)
    THEN [state |-> [st EXCEPT !.running = FALSE], action |-> Action_None]
    ELSE TabHandleKey(st, key, listing)

\* State::handle_key
State_handle_key(st, key, listing) ==
    IF key.code = "Char" /\ key.c = "c" /\ key.ctrl
    THEN [state |-> [st EXCEPT !.running = FALSE], action |-> Action_None]
    ELSE IF key.code = "Tab" /\ ~overlay_active(st)
    THEN [state |-> [st EXCEPT !.active_tab = NextTab(@)], action |-> Action_None]
    ELSE IF IsChar(key, {"q", "Q"}) /\ ~overlay_active(st)
    THEN [state |-> [st EXCEPT !.running = FALSE], action |-> Action_None]
    ELSE TabHandleKey(st, key, listing)

(***************************************************************************)
(* The flamescope grid layout (tui/flamescope_layout.rs).  A Rect is the   *)
(* record of its x, y, width and height; the Option that new returns is a  *)
(* sequence of at most one layout.  The u16 and usize arithmetic is kept   *)
(* as written: a / b is the truncating division, saturating_sub stops at   *)
(* 0, and the sides of the areas of the model stay far below 2^16.         *)
(***************************************************************************)
GRID_COLS == 30
GRID_ROWS == SUBSECOND_ROWS   \* FlamescopeTab::ROWS
LABEL_W == 6

Rect(x, y, width, height) == [x |-> x, y |-> y, width |-> width, height |-> height]

\* FlamescopeLayout::new.
FlamescopeLayout_new(a) ==
    IF a.width < 10 \/ a.height < 2
    THEN <<>>
    ELSE LET avail_h == a.height
             avail_w == saturating_sub(a.width, LABEL_W)
             cell_h == Max(avail_h \div GRID_ROWS, 1)
             cell_w == Max(avail_w \div GRID_COLS, 2)
             used_h == cell_h * GRID_ROWS
             used_w == LABEL_W + cell_w * GRID_COLS
         IN  <<[area |-> a, cell_w |-> cell_w, cell_h |-> cell_h,
                visible_cols |-> GRID_COLS,
                pad_top |-> saturating_sub(a.height, used_h) \div 2,
                pad_left |-> saturating_sub(a.width, used_w) \div 2]>>

\* FlamescopeLayout::row_y, cell_x, bottom and right.
row_y(l, row) == l.area.y + l.pad_top + row * l.cell_h
cell_x(l, col_offset) == l.area.x + l.pad_left + LABEL_W + col_offset * l.cell_w
bottom(l) == l.area.y + l.area.height
right(l) == l.area.x + l.area.width

\* Before the first frame is drawn the terminal has no area to lay out.
(***************************************************************************)
(* The handler thread (tui/event.rs).  Time is counted in steps of the tick  *)
(* rate: elapsed is last_tick.elapsed(), kept up to one step past          *)
(* TickRate, beyond which the code does not tell the values apart.  The    *)
(* running flag is one atomic cell.                                        *)
(***************************************************************************)
MaxElapsed == TickRate + 1

\* tick_rate.checked_sub(last_tick.elapsed()).unwrap_or(tick_rate)
Timeout(elapsed) == IF TickRate >= elapsed THEN TickRate - elapsed ELSE TickRate

\* A poll that waits for an event however long it takes.
pollWithoutTimeout(timeout, queue) ==
    IF queue # <<>> THEN {[ready |-> TRUE, waited |-> d] : d \in 0..timeout} ELSE {}

\* event::poll(timeout): the ways the call can return.  With an event
\* waiting or arriving it returns true once it is there; with none it
\* returns false when the timeout has passed.
poll(timeout, queue) ==
    IF queue # <<>> THEN {[ready |-> TRUE, waited |-> d] : d \in 0..timeout}
    ELSE {[ready |-> FALSE, waited |-> timeout]}

\* The Event that the thread sends for a crossterm event, if any.
Forwarded(e) ==
    CASE e = "KeyPress" -> <<[type |-> "Key"]>>
      [] e = "Resize" -> <<[type |-> "Resize"]>>
      [] OTHER -> <<>>

\* EventHandler::new: the flag is set and the thread is at the top of its loop.
InputInit ==
    /\ events_running = TRUE
    /\ handler = [pc |-> "loop", elapsed |-> 0, timeout |-> 0, observed |-> FALSE]
    /\ terminal = [queue |-> <<>>, arrived |-> 0]

\* State::new, before the first key is handled.
StateInit ==
    /\ running = TRUE
    /\ active_tab = "Flamegraph"
    /\ action = Action_None

TuiInit ==
    /\ area = Rect(0, 0, 0, 0)
    /\ layout = FlamescopeLayout_new(area)
    /\ StateInit
    /\ InputInit

\* The state after State::new and before the first sample of an export.
FreshExport == [flamegraph |-> FlameGraph_new, sample_count |-> 0]

FlameInit ==
    /\ fg = FlamegraphTab_default
    /\ fresh = FreshExport

ScopeInit ==
    /\ flamescope = FlamescopeTab_default
    /\ recorded = <<>>
    /\ seen = {}

(***************************************************************************)
(* The lookup specification: executable 1 has any symbol table within the  *)
(* bounds, executable 2 is already in the store when it is opened, and the *)
(* calls of store_file_symbols and remove_file_symbols run one at a time.  *)
(***************************************************************************)
LookupPath(fid) == IF fid = 1 THEN <<"usr", "bin", "app">> ELSE <<"usr", "bin", "tool">>

InitLookup ==
    /\ \E rs \in RangeSeqs :
          catalog = [fid \in FileIds |->
                        MkFileSym(fid, IF fid = 1 THEN rs ELSE OtherRanges)]
    /\ LET stored == StoreCommitted({}, {}, {}, MkFileSym(2, OtherRanges), LookupPath(2))
       IN /\ ranges = stored.ranges
          /\ strings = stored.strings
          /\ files = stored.files
          /\ basename_index = OpenIndex(stored.files, <<>>)
    /\ workers = [w \in Workers |-> Idle]
    /\ FlameInit
    /\ BusInit
    /\ ScopeInit
    /\ TuiInit

NextLookup ==
    /\ UNCHANGED <<flameVars, busVars, scopeVars, tuiVars>>
    /\ \/ \E fid \in FileIds : NoCallRunning /\ CallStore(1, fid, LookupPath(fid), Snapshot)
       \/ NoCallRunning /\ CallRemove(1, 1, Snapshot)
       \/ StoreCommit(1)
       \/ StoreIndex(1)
       \/ RemoveScanRanges(1)
       \/ RemoveScanStrings(1)
       \/ RemoveCommit(1)
       \/ RemoveIndex(1)
       \/ WorkerExit(1)

SpecLookup == InitLookup /\ [][NextLookup]_vars

(***************************************************************************)
(* The store specifications: two small executables and any of the paths.   *)
(* In SpecStore the data directory is empty at start and the calls run one *)
(* at a time; in SpecStoreConc main.rs has spawned one thread per action   *)
(* and their steps interleave: worker 1 loads symbols, worker 2 removes    *)
(* them.                                                                   *)
(***************************************************************************)
EmptyStore ==
    /\ catalog = [fid \in FileIds |-> MkFileSym(fid, SmallRanges(fid))]
    /\ ranges = {}
    /\ strings = {}
    /\ files = {}
    /\ basename_index = OpenIndex({}, <<>>)
    /\ workers = [w \in Workers |-> Idle]

InitStore ==
    /\ EmptyStore
    /\ FlameInit
    /\ BusInit
    /\ ScopeInit
    /\ TuiInit

WorkerStep(w) ==
    \/ StoreCommit(w)
    \/ StoreIndex(w)
    \/ RemoveScanRanges(w)
    \/ RemoveScanStrings(w)
    \/ RemoveCommit(w)
    \/ RemoveIndex(w)
    \/ WorkerExit(w)

NextStore ==
    /\ UNCHANGED <<flameVars, busVars, scopeVars, tuiVars>>
    /\ \/ \E w \in Workers, fid \in FileIds, path \in Paths :
             NoCallRunning /\ CallStore(w, fid, path, Snapshot)
       \/ \E w \in Workers, fid \in FileIds : NoCallRunning /\ CallRemove(w, fid, Snapshot)
       \/ \E w \in Workers : WorkerStep(w)

SpecStore == InitStore /\ [][NextStore]_vars

\* RemoveSymbols is offered for an entry that shows a file id: here, a file
\* whose row is in the files partition when the key is pressed.
NextStoreConc ==
    /\ UNCHANGED <<flameVars, busVars, scopeVars, tuiVars>>
    /\ \/ \E fid \in FileIds, path \in Paths : CallStore(1, fid, path, NoSnapshot)
       \/ \E fid \in FileIds :
             (\E x \in files : x.file_id = fid) /\ CallRemove(2, fid, NoSnapshot)
       \/ \E w \in Workers : WorkerStep(w)

\* The data directory already holds executable 1, stored in an earlier run.
InitStoreConc ==
    /\ catalog = [fid \in FileIds |-> MkFileSym(fid, SmallRanges(fid))]
    /\ LET stored == StoreCommitted({}, {}, {}, MkFileSym(1, SmallRanges(1)),
                                    <<"usr", "bin", "app">>)
       IN /\ ranges = stored.ranges
          /\ strings = stored.strings
          /\ files = stored.files
          /\ basename_index = OpenIndex(stored.files, <<>>)
    /\ workers = [w \in Workers |-> Idle]
    /\ FlameInit
    /\ BusInit
    /\ ScopeInit
    /\ TuiInit

SpecStoreConc == InitStoreConc /\ [][NextStoreConc]_vars

(***************************************************************************)
(* The flame specification: one process_export call after another builds   *)
(* a fresh flame graph stack by stack, and the main loop merges each one   *)
(* into the flame-graph tab; the user freezes, unfreezes and resets.       *)
(***************************************************************************)
Stacks == {<<"t1">>, <<"t1", "f">>, <<"t1", "f", "g">>, <<"t1", "g">>,
           <<"t2">>, <<"t2", "f">>}

\* An export that files every sample with the weight 1.
AddSampleOnce(export, frames, weight) ==
    [flamegraph |-> add_stack(export.flamegraph, frames, 1),
     sample_count |-> export.sample_count + 1]

\* process_export: flamegraph.add_stack(&stack, value); sample_count += value.
AddSample(export, frames, weight) ==
    [flamegraph |-> add_stack(export.flamegraph, frames, weight),
     sample_count |-> export.sample_count + weight]

FlameAddStack(frames, weight) ==
    /\ fg.graph.root.total_value + fresh.sample_count + weight <= MaxTotal
    /\ fresh' = AddSample(fresh, frames, weight)
    /\ UNCHANGED fg

\* Event::ProfileUpdate in the main loop: the export has sent its graph.
FlameProfileUpdate ==
    /\ fg.profiles_received < MaxProfiles
    /\ fg' = FlamegraphTab_merge(fg, fresh.flamegraph, fresh.sample_count)
    /\ fresh' = FreshExport

\* FlamegraphTab::handle_key, 'f' or space.
FlameToggleFrozen ==
    /\ fg' = [fg EXCEPT !.frozen = ~@]
    /\ UNCHANGED fresh

\* FlamegraphTab::handle_key, 'r'.
FlameReset ==
    /\ fg' = FlamegraphTab_reset(fg)
    /\ UNCHANGED fresh

NextFlame ==
    /\ UNCHANGED <<storeVars, busVars, scopeVars, tuiVars>>
    /\ \/ \E frames \in Stacks, weight \in 1..MaxTotal : FlameAddStack(frames, weight)
       \/ FlameProfileUpdate
       \/ FlameToggleFrozen
       \/ FlameReset

SpecFlame == InitStore /\ [][NextFlame]_vars

(***************************************************************************)
(* The ingestion specifications.  Executable 1 is in the store, so the     *)
(* native location of the dictionary resolves through lookup.  In          *)
(* SpecSamples one export carries any samples of SampleSet; in SpecBus two *)
(* exports run side by side and the main loop takes their events.          *)
(***************************************************************************)
InitIngest == InitStoreConc

NextSamples ==
    /\ UNCHANGED <<storeVars, fresh, scopeVars, spawned, tuiVars>>
    /\ \/ \E req \in SampleRequests : ExportCall(1, req)
       \/ ExportStep(1)
       \/ MainReceive

SpecSamples == InitIngest /\ [][NextSamples]_vars

NextBus ==
    /\ UNCHANGED <<storeVars, fresh, scopeVars, spawned, tuiVars>>
    /\ \/ \E e \in ExportIds, req \in BusRequests : ExportCall(e, req)
       \/ \E e \in ExportIds : ExportStep(e)
       \/ MainReceive

SpecBus == InitIngest /\ [][NextBus]_vars

(***************************************************************************)
(* The executables specification.  The data directory holds what earlier   *)
(* runs stored: any of the two executables, under the paths EarlierStores. *)
(* The user moves the cursor, opens the path input, loads and removes      *)
(* symbols; main.rs runs each load on worker 1 and each removal on worker  *)
(* 2, whose calls interleave and send their event when done; the gRPC      *)
(* server sends MappingsDiscovered events.  At most MaxEvents events are   *)
(* sent.                                                                   *)
(***************************************************************************)
uiVars == <<fg, channel, received, exe, spawned>>

EventsSoFar ==
    Len(received) + Len(channel) + Cardinality({w \in Workers : workers[w].op # "idle"})

\* handle_key, Down or 'j'.
ExeKeyDown ==
    /\ ~exe.path_input.active
    /\ exe' = [exe EXCEPT !.cursor = IF @ + 1 < Len(exe.list) THEN @ + 1 ELSE @]
    /\ UNCHANGED <<storeVars, fg, channel, received, spawned>>

\* handle_key, Up or 'k'.
ExeKeyUp ==
    /\ ~exe.path_input.active
    /\ exe' = [exe EXCEPT !.cursor = saturating_sub(@, 1)]
    /\ UNCHANGED <<storeVars, fg, channel, received, spawned>>

\* handle_key, Enter: the path input opens for the entry under the cursor.
ExeKeyEnter ==
    /\ ~exe.path_input.active
    /\ exe.cursor < Len(exe.list)
    /\ exe' = [exe EXCEPT !.path_input = PathInput_open(<<exe.list[exe.cursor + 1].name>>)]
    /\ UNCHANGED <<storeVars, fg, channel, received, spawned>>

\* handle_key, '/': the path input opens for no entry.
ExeKeySlash ==
    /\ ~exe.path_input.active
    /\ exe' = [exe EXCEPT !.path_input = PathInput_open(<<>>)]
    /\ UNCHANGED <<storeVars, fg, channel, received, spawned>>

\* handle_path_input_key, Esc (or Enter on an empty input).
ExePathEsc ==
    /\ exe.path_input.active
    /\ exe' = [exe EXCEPT !.path_input = PathInput_default]
    /\ UNCHANGED <<storeVars, fg, channel, received, spawned>>

\* The executable found at each path: /usr/bin/app is executable 2, the two
\* other paths hold executable 1.
FileAt(path) == IF path = <<"usr", "bin", "app">> THEN 2 ELSE 1

\* handle_path_input_key, Enter on the path of executable fid, and the
\* LoadSymbols arm of main.rs: the thread it spawns extracts the symbols,
\* which may fail, and then calls store_file_symbols.
ExePathEnter(path, fid) ==
    /\ exe.path_input.active
    /\ EventsSoFar < MaxEvents
    /\ LET target == exe.path_input.target
           file_name == FileNameOf(path)
       IN /\ exe' = [exe EXCEPT
                       !.status = Status(<<"Loading ",
                                           IF target # <<>> THEN target[1] ELSE path>>),
                       !.path_input = PathInput_default]
          /\ spawned' = [spawned EXCEPT ![1] =
                             IF target # <<>> THEN target[1] ELSE file_name]
    /\ \/ CallStore(1, fid, path, NoSnapshot)
       \/ /\ workers[1].op = "idle"
          /\ workers' = [workers EXCEPT ![1] =
                  [Idle EXCEPT !.op = "extract", !.pc = "done", !.fid = fid,
                               !.path = path, !.ok = FALSE]]
          /\ UNCHANGED <<catalog, ranges, strings, files, basename_index>>
    /\ UNCHANGED <<fg, channel, received>>

\* handle_key, 'r' on an entry that has a file id, and the RemoveSymbols arm
\* of main.rs.
ExeKeyRemove ==
    /\ ~exe.path_input.active
    /\ exe.cursor < Len(exe.list)
    /\ exe.list[exe.cursor + 1].file_id # NoFile
    /\ EventsSoFar < MaxEvents
    /\ exe' = [exe EXCEPT !.status = Status(<<"Removing ", exe.list[exe.cursor + 1].name>>)]
    /\ spawned' = [spawned EXCEPT ![2] = exe.list[exe.cursor + 1].name]
    /\ CallRemove(2, exe.list[exe.cursor + 1].file_id, NoSnapshot)
    /\ UNCHANGED <<fg, channel, received>>

\* The thread of a load sends SymbolsLoaded and ends.
SendSymbolsLoaded(w) ==
    /\ workers[w].op \in {"store", "extract"} /\ workers[w].pc = "done"
    /\ channel' = Append(channel,
          IF workers[w].ok
          THEN SymbolsLoaded(spawned[w],
                   <<ExecutableInfo(workers[w].fid, FileNameOf(workers[w].path),
                                    Len(catalog[workers[w].fid].ranges))>>, "")
          ELSE SymbolsLoaded(spawned[w], <<>>, "error"))
    /\ workers' = [workers EXCEPT ![w] = Idle]
    /\ UNCHANGED <<catalog, ranges, strings, files, basename_index>>
    /\ UNCHANGED <<fg, received, exe, spawned>>

\* The thread of a removal sends SymbolsRemoved and ends.
SendSymbolsRemoved(w) ==
    /\ workers[w].op = "remove" /\ workers[w].pc = "done"
    /\ channel' = Append(channel,
          SymbolsRemoved(spawned[w], IF workers[w].ok THEN <<>> ELSE <<"error">>))
    /\ workers' = [workers EXCEPT ![w] = Idle]
    /\ UNCHANGED <<catalog, ranges, strings, files, basename_index>>
    /\ UNCHANGED <<fg, received, exe, spawned>>

\* process_export has found new basenames and sends them.
SendMappingsDiscovered(names) ==
    /\ EventsSoFar < MaxEvents
    /\ channel' = Append(channel, MappingsDiscovered(0, names))
    /\ UNCHANGED <<storeVars, fg, received, exe, spawned>>

\* A step of store_file_symbols or remove_file_symbols on a worker thread.
StoreStep(w) ==
    /\ \/ StoreCommit(w)
       \/ StoreIndex(w)
       \/ RemoveScanRanges(w)
       \/ RemoveScanStrings(w)
       \/ RemoveCommit(w)
       \/ RemoveIndex(w)
    /\ UNCHANGED uiVars

\* The basenames that exports report: a new one, alone or after a known one.
DiscoveredNames == {<<"libc.so.6">>, <<"app", "libc.so.6">>}

\* The store that earlier runs left: stored[fid] is the path executable fid
\* was stored under, or <<>> when it was not stored.
StoredEarlier(stored) ==
    LET nothing == [ranges |-> {}, strings |-> {}, files |-> {}]
        first == IF stored[1] # <<>>
                 THEN StoreCommitted({}, {}, {}, MkFileSym(1, SmallRanges(1)), stored[1])
                 ELSE nothing
    IN IF stored[2] # <<>>
       THEN StoreCommitted(first.ranges, first.strings, first.files,
                           MkFileSym(2, SmallRanges(2)), stored[2])
       ELSE first

\* What earlier runs stored: each executable under a path that holds it, or
\* not at all.
EarlierStores ==
    {stored \in [FileIds -> Paths \cup {<<>>}] :
        \A fid \in FileIds : stored[fid] # <<>> => FileAt(stored[fid]) = fid}

InitExe ==
    /\ catalog = [fid \in FileIds |-> MkFileSym(fid, SmallRanges(fid))]
    /\ \E stored \in EarlierStores :
          /\ ranges = StoredEarlier(stored).ranges
          /\ strings = StoredEarlier(stored).strings
          /\ files = StoredEarlier(stored).files
    /\ basename_index = OpenIndex(files, <<>>)
    /\ workers = [w \in Workers |-> Idle]
    /\ FlameInit
    /\ BusInit
    /\ ScopeInit
    /\ TuiInit

NextExe ==
    /\ UNCHANGED <<fresh, exports, known_basenames, scopeVars, tuiVars>>
    /\ \/ ExeKeyDown
       \/ ExeKeyUp
       \/ ExeKeyEnter
       \/ ExeKeySlash
       \/ ExePathEsc
       \/ \E path \in Paths : ExePathEnter(path, FileAt(path))
       \/ ExeKeyRemove
       \/ \E w \in Workers : StoreStep(w)
       \/ \E w \in Workers : SendSymbolsLoaded(w)
       \/ \E w \in Workers : SendSymbolsRemoved(w)
       \/ \E names \in DiscoveredNames : SendMappingsDiscovered(names)
       \/ MainReceive /\ UNCHANGED storeVars

SpecExe == InitExe /\ [][NextExe]_vars

(***************************************************************************)
(* The flamescope specification: record_timestamps is called with any      *)
(* entries within the bounds, the HashMap hands out its threads in any     *)
(* order, and 'r' resets the tab.  With the epoch at Timestamps' first     *)
(* value the others fall in column 0 row 1 and in column 1 row 1; the      *)
(* first value lies below the other epochs.                                *)
(***************************************************************************)
Timestamps == {NS_PER_SEC, NS_PER_SEC + NS_PER_ROW + NS_PER_ROW \div 2,
               2 * NS_PER_SEC + NS_PER_ROW}
ThreadNames == {"t1", "t2"}

\* The maps from some of the threads to at most MaxBatch timestamps each.
EntryMaps ==
    UNION {[threads -> SeqsUpTo(Timestamps, MaxBatch)] : threads \in SUBSET ThreadNames}

ScopeRecord(entries, order) ==
    /\ Len(recorded) + SeqSum([i \in DOMAIN order |-> Len(entries[order[i]])]) <= MaxRecorded
    /\ Len(record_timestamps(flamescope, entries, order).thread_names) <= MaxNames
    /\ flamescope' = record_timestamps(flamescope, entries, order)
    /\ recorded' = recorded \o VisitOrder(entries, order)
    /\ seen' = seen \cup DOMAIN entries

\* FlamescopeTab::handle_key, 'r'.
ScopeReset ==
    /\ flamescope' = FlamescopeTab_default
    /\ recorded' = <<>>
    /\ seen' = {}

NextScope ==
    /\ UNCHANGED <<storeVars, flameVars, busVars, tuiVars>>
    /\ \/ \E entries \in EntryMaps : \E order \in KeyOrders(entries) :
             ScopeRecord(entries, order)
       \/ ScopeReset

SpecScope == InitStore /\ [][NextScope]_vars

(***************************************************************************)
(* The layout specification: the flamescope grid is laid out in any area   *)
(* within the bounds, and a resize of the terminal lays it out again.  The *)
(* widths lie on both sides of the width guard and of the width at which   *)
(* the cells grow wider than 2.                                            *)
(***************************************************************************)
Widths == {9, 10, 36, 96}
Areas == {Rect(x, y, w, h) : x \in 0..1, y \in 0..MaxY, w \in Widths, h \in 0..MaxHeight}

\* Event::Resize followed by the next render of the flamescope tab.
Resize(a) ==
    /\ area' = a
    /\ layout' = FlamescopeLayout_new(a)

InitLayout ==
    /\ EmptyStore
    /\ FlameInit
    /\ BusInit
    /\ ScopeInit
    /\ area \in Areas
    /\ layout = FlamescopeLayout_new(area)
    /\ StateInit
    /\ InputInit

NextLayout ==
    /\ UNCHANGED <<storeVars, flameVars, busVars, scopeVars, running, active_tab, action,
                   events_running, handler, terminal>>
    /\ \E a \in Areas : Resize(a)

SpecLayout == InitLayout /\ [][NextLayout]_vars

(***************************************************************************)
(* The key specification: the main loop hands any key to State::handle_key *)
(* and merges the graphs of profile updates into the flame-graph tab.  The *)
(* store holds executable 2 from an earlier run, so the executables tab    *)
(* lists "app".  The overlays take the characters of TypedChars, at most   *)
(* MaxInput of them, and the flamescope cursor stays above row MaxRow.     *)
(* The loop handles events while State.running holds.                      *)
(***************************************************************************)
TypedChars == {"q", "Q", " "}
CommandChars == {"f", "j", "l", "r", "/", "G", "c"}
KeyCodes == {"Tab", "Enter", "Esc", "Backspace", "Up", "Down", "Left", "Right"}

Keys ==
    {Code(code) : code \in KeyCodes}
        \cup {Char(c) : c \in TypedChars \cup CommandChars}
        \cup {KeyEvent("Char", "c", TRUE)}

\* What read_dir may list for the text of the path input.
Listings == {<<>>, << <<"Q">>, <<"q">> >>}

\* The samples of an export: one thread alone, or two threads with a frame.
KeyExports == {<< <<"t1">> >>}
SearchExports == {<< <<"t1">> >>, << <<"Main", "f">>, <<"t1", "f">> >>}

\* process_export: the graph of the stacks, each filed with the value 1.
RECURSIVE GraphOf(_)
GraphOf(stacks) ==
    IF stacks = <<>> THEN FlameGraph_new
    ELSE add_stack(GraphOf(pop(stacks)), stacks[Len(stacks)], 1)

TheState == State(running, active_tab, fg, flamescope, exe)

\* The texts of the three overlays stay within MaxInput characters.
WithinInput(st) ==
    /\ Len(st.fg.search.input) <= MaxInput
    /\ Len(st.fs.search.input) <= MaxInput
    /\ Len(st.exe.path_input.input) <= MaxInput

\* The Event::Key arm of main.rs: state.handle_key(key).  An open overlay is
\* given the characters of typed only.
HandleKey(key, listing, typed) ==
    LET handled == State_handle_key(TheState, key, listing)
    IN  /\ running
        /\ listing # <<>> => active_tab = "Executables" /\ exe.path_input.active
        /\ WithinInput(handled.state)
        /\ handled.state.fs.cursor_row <= MaxRow
        /\ key.code = "Char" /\ overlay_active(TheState) /\ ~key.ctrl => key.c \in typed
        /\ running' = handled.state.running
        /\ active_tab' = handled.state.active_tab
        /\ fg' = handled.state.fg
        /\ flamescope' = handled.state.fs
        /\ exe' = handled.state.exe
        /\ action' = handled.action
        /\ UNCHANGED <<storeVars, fresh, exports, channel, known_basenames, received,
                       spawned, recorded, seen, area, layout, events_running, handler,
                       terminal>>

\* The Event::ProfileUpdate arm of main.rs, for the graph of an export with
\* one sample for each of the stacks.
KeysProfileUpdate(stacks) ==
    /\ running
    /\ fg.profiles_received < MaxMerges
    /\ fg' = FlamegraphTab_merge(fg, GraphOf(stacks), Len(stacks))
    /\ UNCHANGED <<storeVars, fresh, busVars, scopeVars, tuiVars>>

KeysStored == [fid \in FileIds |-> IF fid = 2 THEN <<"usr", "bin", "app">> ELSE <<>>]

InitKeys ==
    /\ catalog = [fid \in FileIds |-> MkFileSym(fid, SmallRanges(fid))]
    /\ ranges = StoredEarlier(KeysStored).ranges
    /\ strings = StoredEarlier(KeysStored).strings
    /\ files = StoredEarlier(KeysStored).files
    /\ basename_index = OpenIndex(files, <<>>)
    /\ workers = [w \in Workers |-> Idle]
    /\ FlameInit
    /\ BusInit
    /\ ScopeInit
    /\ TuiInit

NextKeys ==
    \/ \E key \in Keys, listing \in Listings : HandleKey(key, listing, TypedChars)
    \/ \E stacks \in KeyExports : KeysProfileUpdate(stacks)

SpecKeys == InitKeys /\ [][NextKeys]_vars

(***************************************************************************)
(* The search specification: the user stays on the flame-graph tab, moves  *)
(* and zooms in graphs of up to two threads and searches them; the search  *)
(* overlay takes the characters of SearchChars.                            *)
(***************************************************************************)
SearchChars == {"M", "T", "q"}

SearchKeys == {key \in Keys : key.code # "Tab"} \cup {Char(c) : c \in SearchChars}

NextSearch ==
    \/ \E key \in SearchKeys : HandleKey(key, <<>>, SearchChars)
    \/ \E stacks \in SearchExports : KeysProfileUpdate(stacks)

SpecSearch == InitKeys /\ [][NextSearch]_vars

(***************************************************************************)
(* The cursor specification: the user stays on the flame-graph tab as in   *)
(* the search specification, while exports bring a thread with a frame     *)
(* and a thread without one, up to MaxCursorMerges of them between resets. *)
(***************************************************************************)
CursorExports == {<< <<"t1", "f">> >>, << <<"Main">> >>}

\* The Event::ProfileUpdate arm of main.rs, as KeysProfileUpdate.
CursorProfileUpdate(stacks) ==
    /\ running
    /\ fg.profiles_received < MaxCursorMerges
    /\ fg' = FlamegraphTab_merge(fg, GraphOf(stacks), Len(stacks))
    /\ UNCHANGED <<storeVars, fresh, busVars, scopeVars, tuiVars>>

NextCursor ==
    \/ \E key \in SearchKeys : HandleKey(key, <<>>, SearchChars)
    \/ \E stacks \in CursorExports : CursorProfileUpdate(stacks)

SpecCursor == InitKeys /\ [][NextCursor]_vars

(***************************************************************************)
(* The handler specification: the handler thread runs its loop while crossterm *)
(* events arrive at the terminal and time passes, and the main thread      *)
(* calls EventHandler::stop at any moment.  While the flag is set the      *)
(* thread starts a round of its loop only if the channel holds fewer than  *)
(* MaxSent events.  SpecInputFair adds that the thread is scheduled: a     *)
(* step of its loop that can be taken is taken; a failure of the terminal  *)
(* may happen and need not.                                                *)
(***************************************************************************)
TerminalEvents == {"KeyPress", "KeyRelease", "Resize", "Mouse"}

inputOthers == <<storeVars, flameVars, exports, known_basenames, received, exe, spawned,
                 scopeVars, area, layout, running, active_tab, action>>

\* The user types or resizes: a crossterm event becomes readable.
Arrive(e) ==
    /\ terminal.arrived < MaxArrived
    /\ terminal' = [queue |-> Append(terminal.queue, e), arrived |-> terminal.arrived + 1]
    /\ UNCHANGED <<channel, events_running, handler>>

\* A step of the tick rate passes while the thread is not in poll.
TimePasses ==
    /\ handler.pc \in {"loop", "read", "tick"}
    /\ handler.elapsed < MaxElapsed
    /\ handler' = [handler EXCEPT !.elapsed = @ + 1]
    /\ UNCHANGED <<channel, events_running, terminal>>

\* EventHandler::stop, called by Tui::exit.
Stop ==
    /\ events_running
    /\ events_running' = FALSE
    /\ UNCHANGED <<channel, handler, terminal>>

\* while running.load(Ordering::Relaxed), and the timeout of the round.
InputLoad ==
    /\ handler.pc = "loop"
    /\ events_running => Len(channel) < MaxSent
    /\ handler' = IF events_running
                 THEN [handler EXCEPT !.pc = "poll", !.timeout = Timeout(handler.elapsed)]
                 ELSE [handler EXCEPT !.pc = "done", !.observed = TRUE]
    /\ UNCHANGED <<channel, events_running, terminal>>

\* event::poll(timeout) returns.
InputPoll ==
    /\ handler.pc = "poll"
    /\ \E outcome \in poll(handler.timeout, terminal.queue) :
          handler' = [handler EXCEPT
                         !.pc = IF outcome.ready THEN "read" ELSE "tick",
                         !.elapsed = Min(@ + outcome.waited, MaxElapsed)]
    /\ UNCHANGED <<channel, events_running, terminal>>

\* event::read() returns the first waiting event, and the match on it.
InputRead ==
    /\ handler.pc = "read"
    /\ handler' = [handler EXCEPT !.pc = "tick"]
    /\ terminal' = [terminal EXCEPT !.queue = Tail(@)]
    /\ channel' = channel \o Forwarded(Head(terminal.queue))
    /\ UNCHANGED events_running

\* event::poll or event::read fails: expect panics and the thread ends.
InputPanic ==
    /\ handler.pc \in {"poll", "read"}
    /\ handler' = [handler EXCEPT !.pc = "panicked"]
    /\ UNCHANGED <<channel, events_running, terminal>>

\* if last_tick.elapsed() >= tick_rate { send(Event::Tick); last_tick = now }
InputTick ==
    /\ handler.pc = "tick"
    /\ IF handler.elapsed >= TickRate
       THEN /\ channel' = Append(channel, [type |-> "Tick"])
            /\ handler' = [handler EXCEPT !.pc = "loop", !.elapsed = 0]
       ELSE /\ handler' = [handler EXCEPT !.pc = "loop"]
            /\ UNCHANGED channel
    /\ UNCHANGED <<events_running, terminal>>

InputStep == InputLoad \/ InputPoll \/ InputRead \/ InputTick

InitInput ==
    /\ EmptyStore
    /\ FlameInit
    /\ BusInit
    /\ ScopeInit
    /\ TuiInit

NextInput ==
    /\ UNCHANGED inputOthers
    /\ \/ \E e \in TerminalEvents : Arrive(e)
       \/ TimePasses
       \/ Stop
       \/ InputLoad
       \/ InputPoll
       \/ InputRead
       \/ InputTick
       \/ InputPanic

SpecInput == InitInput /\ [][NextInput]_vars

SpecInputFair == SpecInput /\ WF_vars(InputStep /\ UNCHANGED inputOthers)

(***************************************************************************)
(* Claims about the symbol store.                                          *)
(***************************************************************************)
Addrs == 0..MaxAddr

\* The call of worker w has returned Ok.
ReturnedOk(w, op) == workers[w].op = op /\ workers[w].pc = "done" /\ workers[w].ok

\* The positions of the ranges of file_sym whose interval holds addr.
Covering(file_sym, addr) ==
    {i \in DOMAIN file_sym.ranges :
        /\ file_sym.ranges[i].va_start <= addr
        /\ addr < file_sym.ranges[i].va_start + file_sym.ranges[i].length}

FrameOfRange(file_sym, i) ==
    ResolvedFrame(file_sym.strings[file_sym.ranges[i].func + 1], file_sym.ranges[i].depth)

\* res holds one frame for exactly each range of file_sym covering addr, by
\* ascending depth.
ExactFrames(res, file_sym, addr) ==
    /\ Len(res) = Cardinality(Covering(file_sym, addr))
    /\ Range(res) = {FrameOfRange(file_sym, i) : i \in Covering(file_sym, addr)}
    /\ SortedByDepth(res)

LookupExactAfterStore(w) ==
    \A addr \in Addrs :
        \A res \in lookup(ranges, strings, workers[w].fid, addr) :
            ExactFrames(res, catalog[workers[w].fid], addr)

ProperlyNested(file_sym) ==
    LET rs == file_sym.ranges
    IN /\ \A i, j \in DOMAIN rs :
             (rs[i].va_start = rs[j].va_start /\ rs[i].depth = rs[j].depth) => i = j
       /\ \A i, z \in DOMAIN rs :
             (rs[z].depth = 0 /\ rs[i].va_start < rs[z].va_start)
                 => rs[i].va_start + rs[i].length <= rs[z].va_start
       /\ \A i \in DOMAIN rs : rs[i].va_start + rs[i].length <= MaxAddr

RowsOf(part, fid) == {x \in part : x.file_id = fid}
OtherRows(part, fid) == {x \in part : x.file_id # fid}

\* No trace of fid is left in the store.
NothingStored(fid) ==
    /\ RowsOf(ranges, fid) = {}
    /\ RowsOf(strings, fid) = {}
    /\ RowsOf(files, fid) = {}
    /\ \A b \in DOMAIN basename_index : basename_index[b] # fid

\* C3: after remove_file_symbols(fid) returns Ok no key of fid is left in
\* ranges or strings, files has no row for fid, no basename-index entry maps
\* to fid and lookup(fid, addr) is empty for every addr; the rows and the
\* index entries of every other file id are as they were before the call.
C3_RemoveLeavesNothing ==
    \A w \in Workers :
        ReturnedOk(w, "remove") =>
            LET fid == workers[w].fid
                pre == workers[w].pre
            IN /\ NothingStored(fid)
               /\ \A addr \in Addrs : lookup(ranges, strings, fid, addr) = {<<>>}
               /\ OtherRows(ranges, fid) = OtherRows(pre.ranges, fid)
               /\ OtherRows(strings, fid) = OtherRows(pre.strings, fid)
               /\ OtherRows(files, fid) = OtherRows(pre.files, fid)
               /\ DOMAIN basename_index =
                      {b \in DOMAIN pre.basename_index : pre.basename_index[b] # fid}
               /\ \A b \in DOMAIN basename_index :
                      basename_index[b] = pre.basename_index[b]

\* C3 witness: a removal has returned Ok for a file that had rows and an index
\* entry, while another file had rows and an index entry of its own.
C3_Witness ==
    \E w \in Workers :
        /\ ReturnedOk(w, "remove")
        /\ RowsOf(workers[w].pre.ranges, workers[w].fid) # {}
        /\ RowsOf(workers[w].pre.files, workers[w].fid) # {}
        /\ \E b \in DOMAIN workers[w].pre.basename_index :
              workers[w].pre.basename_index[b] = workers[w].fid
        /\ OtherRows(ranges, workers[w].fid) # {}
        /\ basename_index # <<>>

\* C4: when the batch commit of store_file_symbols fails the call returns an
\* error and the partitions and the basename index are as they were before the
\* call; the index is not touched before the commit has succeeded.
C4_FailedStoreChangesNothing ==
    \A w \in Workers :
        /\ (workers[w].op = "store" /\ workers[w].pc = "done" /\ ~workers[w].ok)
              => Snapshot = workers[w].pre
        /\ (workers[w].op = "store" /\ workers[w].pc = "commit")
              => basename_index = workers[w].pre.basename_index

\* C4 witness: a store of a file the store does not hold has returned an error.
C4_Witness ==
    \E w \in Workers :
        /\ workers[w].op = "store" /\ workers[w].pc = "done" /\ ~workers[w].ok
        /\ Len(catalog[workers[w].fid].ranges) > 0
        /\ RowsOf(files, workers[w].fid) = {}

\* The whole FileSym of fid is in the store: every range, every string, the
\* files row and a basename-index entry.
WholeStored(fid) ==
    /\ \A i \in DOMAIN catalog[fid].ranges :
          RangeRow(fid, catalog[fid].ranges[i]) \in ranges
    /\ \A i \in DOMAIN catalog[fid].strings :
          StringRow(fid, i - 1, catalog[fid].strings[i]) \in strings
    /\ RowsOf(files, fid) # {}
    /\ \E b \in DOMAIN basename_index : basename_index[b] = fid

\* C5: once a store_file_symbols and a remove_file_symbols of the same file id
\* that ran concurrently have both returned, the store holds the whole FileSym
\* or nothing at all for that file id.
C5_StoreRemoveAtomic ==
    \A w, v \in Workers :
        (/\ workers[w].op = "store" /\ workers[w].pc = "done"
         /\ workers[v].op = "remove" /\ workers[v].pc = "done"
         /\ workers[w].fid = workers[v].fid)
            => (WholeStored(workers[w].fid) \/ NothingStored(workers[w].fid))

(***************************************************************************)
(* Claims about the flame graph.                                           *)
(***************************************************************************)
ChildTotals(node) == [i \in DOMAIN node.children |-> node.children[i].total_value]

RECURSIVE TotalsAddUp(_)
TotalsAddUp(node) ==
    /\ node.total_value = node.self_value + SeqSum(ChildTotals(node))
    /\ \A i \in DOMAIN node.children : TotalsAddUp(node.children[i])

RECURSIVE NodeDepth(_)
NodeDepth(node) ==
    IF node.children = <<>> THEN 0
    ELSE 1 + NodeDepth(node.children[
                 CHOOSE i \in DOMAIN node.children :
                     \A j \in DOMAIN node.children :
                         NodeDepth(node.children[j]) <= NodeDepth(node.children[i])])

\* C1: after any sequence of add_stack, merge and sort_recursive on a flame
\* graph, also through FlamegraphTab::merge, every node has
\* total_value = self_value + the sum of its children's total_value: in the
\* graph an export is building, in the tab's graph, and in what one more
\* sort_recursive or merge makes of them.
C1_TotalsAddUp ==
    /\ TotalsAddUp(fresh.flamegraph.root)
    /\ TotalsAddUp(fg.graph.root)
    /\ TotalsAddUp(sort_recursive(fresh.flamegraph.root))
    /\ TotalsAddUp(FlameNode_merge(fg.graph.root, fresh.flamegraph.root))
    /\ TotalsAddUp(FlamegraphTab_merge(fg, fresh.flamegraph, fresh.sample_count).graph.root)

\* The tab has merged two profiles into a graph three frames deep with two
\* thread roots, and the next export has added a stack.
C1_Witness ==
    /\ fg.profiles_received = 2
    /\ Len(fg.graph.root.children) = 2
    /\ NodeDepth(fg.graph.root) = 3
    /\ fg.graph.root.total_value = 2
    /\ fresh.sample_count = 1

(***************************************************************************)
(* Claims about process_export.                                            *)
(***************************************************************************)
\* The sample that a step of export e has just taken from the loop, and
\* whether the step was such a step.
TakesSample(e) ==
    /\ exports[e].pc = "samples"
    /\ exports'[e].next = exports[e].next + 1

TakenSample(e) == exports[e].req.samples[exports[e].next]

\* The stack that the step filed the sample under; <<>> for a skipped sample.
StackUsed(e) == exports'[e].stack_cache[TakenSample(e).stack_index]

\* The node at the end of a path of names, from the node given.
RECURSIVE NodeAt(_, _)
NodeAt(node, path) ==
    IF path = <<>> THEN node
    ELSE LET i == ChildIndex(node.children, Head(path))
         IN IF i = 0 THEN FlameNode_new(Head(path))
            ELSE NodeAt(node.children[i], Tail(path))

TimestampsOf(map, thread) == IF thread \in DOMAIN map THEN map[thread] ELSE <<>>

\* The weight the claim gives a sample.
ClaimedWeight(sample) ==
    IF sample.timestamps_unix_nano # <<>> THEN Len(sample.timestamps_unix_nano)
    ELSE IF sample.values # <<>> THEN Max(1, SeqSum(sample.values))
    ELSE 1

\* The step added weight to the flame graph of export e, at the end of the
\* path stack and in the total of the root, and to its sample count.
AddsWeight(e, stack, weight) ==
    /\ exports'[e].sample_count = exports[e].sample_count + weight
    /\ exports'[e].flamegraph.root.total_value =
           exports[e].flamegraph.root.total_value + weight
    /\ NodeAt(exports'[e].flamegraph.root, stack).self_value =
           NodeAt(exports[e].flamegraph.root, stack).self_value + weight

\* C6: for every sample that is not skipped, the weight added to the flame
\* graph and to the sample count is the number of timestamps when there are
\* timestamps (the values are then ignored, and the timestamps are appended
\* in order to the list of the thread the sample is filed under), else
\* max(1, sum of the values) when there are values, else 1.
C6_SampleWeight ==
    [][\A e \in ExportIds :
          TakesSample(e) /\ StackUsed(e) # <<>> =>
              LET sample == TakenSample(e)
                  thread == StackUsed(e)[1]
              IN /\ AddsWeight(e, StackUsed(e), ClaimedWeight(sample))
                 /\ TimestampsOf(exports'[e].thread_timestamps, thread) =
                        TimestampsOf(exports[e].thread_timestamps, thread)
                            \o sample.timestamps_unix_nano]_vars

\* An export has taken a sample with two timestamps and a value of 4, which
\* weighs 2, and then one whose values add up to -3, which weighs 1.
C6_Witness ==
    /\ exports[1].req.samples = <<Sample(1, <<1>>, <<4>>, <<7, 5>>),
                                  Sample(1, <<1>>, <<0 - 3>>, <<>>)>>
    /\ exports[1].next = 3
    /\ exports[1].sample_count = 3
    /\ exports[1].thread_timestamps["t1"] = <<7, 5>>

\* C7: the weight of every sample that is not skipped goes under the
\* per-thread root named by the sample's own thread.name attribute
\* ([unknown] when it is absent or empty), and its timestamps go under that
\* same name, whatever other samples share its stack index.
C7_OwnThreadName ==
    [][\A e \in ExportIds :
          TakesSample(e) /\ StackUsed(e) # <<>> =>
              LET sample == TakenSample(e)
                  own == resolve_thread_name(sample, exports[e].req.dictionary[1])
              IN /\ NodeAt(exports'[e].flamegraph.root, <<own>>).total_value =
                        NodeAt(exports[e].flamegraph.root, <<own>>).total_value
                            + ClaimedWeight(sample)
                 /\ TimestampsOf(exports'[e].thread_timestamps, own) =
                        TimestampsOf(exports[e].thread_timestamps, own)
                            \o sample.timestamps_unix_nano]_vars

\* The labels of the location indices of a stack that name a location, in
\* the order of the stack table.
StackLabels(e, stack_index) ==
    LET t == exports[e]
        indices == t.req.dictionary[1].stack_table[stack_index + 1].location_indices
        named == SelectSeq(indices, LAMBDA i : as_usize(i) < Len(t.location_cache))
    IN [k \in DOMAIN named |-> t.location_cache[as_usize(named[k]) + 1]]

\* The first sample of the request of export e with this stack index.
FirstWithStack(e, stack_index) ==
    LET samples == exports[e].req.samples
    IN samples[CHOOSE i \in DOMAIN samples :
                   /\ samples[i].stack_index = stack_index
                   /\ \A j \in 1..(i - 1) : samples[j].stack_index # stack_index]

\* C8: the collapsed stack passed to add_stack for a sample is the thread
\* name (the one resolved when the stack index was first seen) followed by
\* the labels of the stack's location indices in reverse order: the last
\* location index is the thread's child, the first is the deepest node.
C8_ReversedStack ==
    [][\A e \in ExportIds :
          TakesSample(e) /\ StackUsed(e) # <<>> =>
              LET sample == TakenSample(e)
                  stack == StackUsed(e)
                  labels == StackLabels(e, sample.stack_index)
                  n == Len(labels)
              IN /\ Len(stack) = n + 1
                 /\ stack[1] = resolve_thread_name(
                                   FirstWithStack(e, sample.stack_index),
                                   exports[e].req.dictionary[1])
                 /\ \A k \in 1..n : stack[1 + k] = labels[n + 1 - k]
                 /\ AddsWeight(e, stack, SampleValue(sample))]_vars

\* An export has filed a sample under the stack of two named locations, the
\* native one first in the stack table and so deepest in the flame graph.
C8_Witness ==
    /\ exports[1].pc = "done"
    /\ exports[1].req.samples = <<Sample(2, <<1>>, <<2, 1>>, <<>>)>>
    /\ exports[1].stack_cache[2] =
           <<"t1", "main [Unknown]", "foo [Native] / bar [Native] [Inline]">>
    /\ NodeAt(exports[1].flamegraph.root, exports[1].stack_cache[2]).self_value = 3

(***************************************************************************)
(* Claims about the event channel.                                         *)
(***************************************************************************)
\* Every event sent so far, oldest first: those received, then those still
\* in the channel.
SentLog == received \o [i \in DOMAIN channel |->
                           [type |-> channel[i].type, req |-> channel[i].req]]

PositionsOf(log, type, e) ==
    {i \in DOMAIN log : log[i].type = type /\ log[i].req = e}

HasDictionary(e) == exports[e].pc # "idle" /\ exports[e].req.dictionary # <<>>

\* Export e has sent at most one ProfileUpdate, exactly one once it has
\* returned, and no MappingsDiscovered of e comes after its ProfileUpdate,
\* neither among the events sent nor among those received.
OneProfileUpdateLast(e) ==
    /\ Cardinality(PositionsOf(SentLog, "ProfileUpdate", e)) <= 1
    /\ exports[e].pc = "done" =>
           Cardinality(PositionsOf(SentLog, "ProfileUpdate", e)) = 1
    /\ \A i \in PositionsOf(SentLog, "MappingsDiscovered", e) :
           \A j \in PositionsOf(SentLog, "ProfileUpdate", e) : i < j
    /\ \A j \in PositionsOf(received, "ProfileUpdate", e) :
           \A i \in PositionsOf(SentLog, "MappingsDiscovered", e) :
               i \in DOMAIN received /\ i < j

\* C9: for every export request that carries a dictionary exactly one
\* ProfileUpdate is sent, and a MappingsDiscovered of that request is sent
\* before, and received by the main loop before, its ProfileUpdate.
C9_MappingsBeforeProfileUpdate ==
    \A e \in ExportIds : HasDictionary(e) => OneProfileUpdateLast(e)

\* Both exports carried the dictionary; the main loop has received the
\* MappingsDiscovered of export 1 and, after the ProfileUpdate of export 2,
\* the ProfileUpdate of export 1.
C9_Witness ==
    /\ HasDictionary(1) /\ HasDictionary(2)
    /\ \E i, j, k \in DOMAIN received :
           /\ i < j /\ j < k
           /\ received[i] = [type |-> "MappingsDiscovered", req |-> 1]
           /\ received[j] = [type |-> "ProfileUpdate", req |-> 2]
           /\ received[k] = [type |-> "ProfileUpdate", req |-> 1]

\* C10: an export request without a dictionary has no side effect: no step
\* of its process_export sends an event or changes the known-mappings set,
\* and no event of the channel or of the main loop's history is its own.
C10_NoDictionaryNoEffect ==
    [][\A e \in ExportIds :
          /\ exports'[e] # exports[e]
          /\ exports'[e].req.dictionary = <<>>
          => /\ channel' = channel
             /\ known_basenames' = known_basenames
             /\ \A i \in DOMAIN SentLog : SentLog[i].req # e
             /\ exports'[e].pc = "done" =>
                    /\ exports'[e].flamegraph = FlameGraph_new
                    /\ exports'[e].names = <<>>]_vars

\* An export without a dictionary has returned while the other export had
\* made a mapping known and sent its events.
C10_Witness ==
    /\ exports[1].pc = "done"
    /\ exports[1].req.dictionary = <<>>
    /\ exports[2].pc = "done"
    /\ known_basenames # {}
    /\ channel # <<>>

(***************************************************************************)
(* Claims about the Export RPC and the known-mappings set.                 *)
(***************************************************************************)
\* C11: the Export RPC returns Ok with an empty response (partial_success
\* unset) for every request, whatever the request contains and whatever
\* happens while it is processed: an absent dictionary, out-of-range or
\* negative indices, a failed read of the store.
C11_ExportAlwaysOk ==
    \A e \in ExportIds :
        exports[e].pc # "idle" =>
            exports[e].response = <<[ok |-> TRUE, partial_success |-> <<>>]>>

\* An export has returned whose samples name a negative stack index and a
\* stack with a location index past the table, and whose native location
\* stayed unsymbolized because the read of the store failed.
C11_Witness ==
    /\ exports[1].pc = "done"
    /\ exports[1].req.samples = <<Sample(0 - 1, <<1>>, <<2>>, <<>>),
                                  Sample(2, <<1>>, <<2, 1>>, <<>>)>>
    /\ exports[1].location_cache[4] = "app+0x0000000000000001 [Native]"
    /\ exports[1].response # <<>>

\* The basenames reported so far: the names of every MappingsDiscovered
\* event sent, one export after the other.
RECURSIVE ReportedBy(_)
ReportedBy(es) ==
    IF es = {} THEN <<>>
    ELSE LET e == CHOOSE x \in es : \A y \in es : x <= y
         IN (IF PositionsOf(SentLog, "MappingsDiscovered", e) # {}
             THEN exports[e].names ELSE <<>>) \o ReportedBy(es \ {e})

Reported == ReportedBy(ExportIds)

\* The basenames of the mappings of a dictionary that may be reported: not
\* mapping 0, not an empty basename, not one that starts with '['.
Reportable(dict) ==
    {b \in {basename_of(dict.string_table[dict.mapping_table[m].filename_strindex + 1]) :
                m \in {i \in 2..Len(dict.mapping_table) :
                          LET idx == dict.mapping_table[i].filename_strindex
                          IN idx > 0 /\ idx < Len(dict.string_table)}} :
        b # "" /\ ~StartsWithBracket(b)}

\* C12: across all export requests of one server process each mapping
\* basename is reported in MappingsDiscovered events at most once in total,
\* and mapping 0, empty basenames and basenames that start with '[' are
\* never reported.
C12_BasenameReportedOnce ==
    /\ \A i, j \in DOMAIN Reported : Reported[i] = Reported[j] => i = j
    /\ \A i \in DOMAIN Reported : Reported[i] \in Reportable(Dict)

\* Export e is at the insert of unknown_basenames, and the file name it is
\* about to insert and report.
Inserts(e) == exports[e].pc = "basename_insert" /\ exports'[e] # exports[e]

InsertedPath(e) ==
    LET dict == exports[e].req.dictionary[1]
    IN dict.string_table[dict.mapping_table[exports[e].map_next].filename_strindex + 1]

\* C13: when two exports that carry the same mapping file name, not yet
\* reported, run side by side, exactly one of them reports it, the
\* membership check and the insert being one step: no export inserts and
\* reports a file name that the known set already holds.
C13_CheckAndInsertAtomic ==
    [][\A e \in ExportIds :
          Inserts(e) => InsertedPath(e) \notin known_basenames]_vars

(***************************************************************************)
(* Claims about the flamescope.                                            *)
(***************************************************************************)
ColumnSum(column) == SeqSum([r \in 1..SUBSECOND_ROWS |-> column[r]])

\* The sum of all cells of a matrix.
CellSum(columns) == SeqSum([c \in DOMAIN columns |-> ColumnSum(columns[c])])

\* The matrix of a thread; a thread without one counts nothing.
ThreadMatrix(tab, thread) ==
    IF thread \in DOMAIN tab.threads THEN tab.threads[thread] ELSE <<>>

\* The cell (col, row) of a matrix, 0 beyond its columns.
Cell(columns, col, row) == IF col + 1 \in DOMAIN columns THEN columns[col + 1][row + 1] ELSE 0

\* The sum of the cell (col, row) over the matrices of the threads.
RECURSIVE CellOverThreads(_, _, _, _)
CellOverThreads(tab, threads, col, row) ==
    IF threads = {} THEN 0
    ELSE LET thread == CHOOSE t \in threads : TRUE
         IN Cell(ThreadMatrix(tab, thread), col, row)
            + CellOverThreads(tab, threads \ {thread}, col, row)

RecordedFor(thread) == {i \in DOMAIN recorded : recorded[i].thread = thread}

\* C14: since the last reset, the cells of the global matrix add up to the
\* number of timestamps recorded, the cells of each thread's matrix to the
\* number recorded for that thread, and every global cell is the sum of the
\* same cell over the threads.
C14_CountsAddUp ==
    /\ CellSum(flamescope.columns) = Len(recorded)
    /\ \A thread \in ThreadNames :
          CellSum(ThreadMatrix(flamescope, thread)) = Cardinality(RecordedFor(thread))
    /\ \A c \in DOMAIN flamescope.columns, row \in 0..(SUBSECOND_ROWS - 1) :
          Cell(flamescope.columns, c - 1, row) =
              CellOverThreads(flamescope, ThreadNames, c - 1, row)

\* Both threads have recorded timestamps, two of them in the same cell, and
\* the global matrix has more columns than the matrix of one of the threads.
C14_Witness ==
    /\ Len(recorded) = MaxRecorded
    /\ \A thread \in ThreadNames : RecordedFor(thread) # {}
    /\ \E c \in DOMAIN flamescope.columns, r \in 1..SUBSECOND_ROWS :
          flamescope.columns[c][r] >= 2
    /\ \E thread \in ThreadNames :
          Len(ThreadMatrix(flamescope, thread)) < Len(flamescope.columns)

\* The epoch of C15: the first timestamp observed since the last reset.
Epoch == recorded[1].ts

\* The offset, column and row that C15 gives a timestamp.
OffsetOf(ts) == Max(0, ts - Epoch)
ColumnOf(ts) == OffsetOf(ts) \div 1000000000
RowOf(ts) == Min(9, (OffsetOf(ts) % 1000000000) \div 100000000)

CountedIn(col, row, thread) ==
    {i \in RecordedFor(thread) : ColumnOf(recorded[i].ts) = col /\ RowOf(recorded[i].ts) = row}

\* C15: the epoch is the first timestamp observed since the last reset and
\* stays so whatever is recorded later, and each cell, of the global matrix
\* and of a thread's, counts the timestamps whose offset from the epoch
\* falls in its column and row.
C15_CellOfTimestamp ==
    /\ flamescope.epoch_ns = IF recorded = <<>> THEN <<>> ELSE <<Epoch>>
    /\ \A col \in 0..2, row \in 0..9 :
          /\ Cell(flamescope.columns, col, row)
                = Cardinality(UNION {CountedIn(col, row, thread) : thread \in ThreadNames})
          /\ \A thread \in ThreadNames :
                Cell(ThreadMatrix(flamescope, thread), col, row)
                    = Cardinality(CountedIn(col, row, thread))

\* A timestamp below the epoch was recorded after one above it.
C15_Witness ==
    /\ Len(recorded) = MaxRecorded
    /\ recorded[2].ts > Epoch
    /\ recorded[3].ts < Epoch
    /\ Cell(flamescope.columns, 0, 0) = 2

RECURSIVE Carried(_)
Carried(timestamps) ==
    IF DOMAIN timestamps = {} THEN 0
    ELSE LET thread == CHOOSE t \in DOMAIN timestamps : TRUE
         IN Len(timestamps[thread])
            + Carried([t \in DOMAIN timestamps \ {thread} |-> timestamps[t]])

\* The main loop applies the ProfileUpdate event at the head of the channel.
AppliesProfileUpdate ==
    /\ channel # <<>>
    /\ Head(channel).type = "ProfileUpdate"
    /\ received' = Append(received, [type |-> "ProfileUpdate", req |-> Head(channel).req])

\* C17: applying a ProfileUpdate event merges its flame graph into the
\* flame-graph tab and records its timestamps into the flamescope, whose
\* total count grows by the number of timestamps the event carries.
C17_ProfileUpdateRecordsTimestamps ==
    [][AppliesProfileUpdate =>
          /\ fg' = FlamegraphTab_merge(fg, Head(channel).flamegraph, Head(channel).samples)
          /\ CellSum(flamescope'.columns)
                = CellSum(flamescope.columns) + Carried(Head(channel).timestamps)]_vars

(***************************************************************************)
(* Claims about the executables tab.                                       *)
(***************************************************************************)
\* The main loop applies the event at the head of the channel.
Applies(type) ==
    /\ channel # <<>>
    /\ Head(channel).type = type
    /\ received' = Append(received, [type |-> type, req |-> Head(channel).req])

\* C18: when a SymbolsRemoved event that carries an error is applied, the
\* status line shows the error and nothing else of the executables tab
\* changes: the entry keeps its file_id and its num_ranges.
C18_FailedRemovalKeepsEntry ==
    [][(Applies("SymbolsRemoved") /\ Head(channel).error # <<>>) =>
          /\ exe'.status = Status(<<"Error removing ", Head(channel).name, ": ",
                                    Head(channel).error[1]>>)
          /\ exe'.list = exe.list
          /\ exe'.cursor = exe.cursor]_vars

\* The list is in the order of sort_list: no entry comes after one that
\* sort_list puts behind it.
ListSorted(entries) ==
    \A i, j \in DOMAIN entries : i < j => ~EntryBefore(entries[j], entries[i])

\* C19: in every reachable state, from the state built from list_files()
\* on, the list has its symbolized entries first and, within each group, is
\* ordered by name ascending.
C19_ListSorted == ListSorted(exe.list)

\* The main loop applies an event whose arm updates the list.
UpdatesList ==
    \/ Applies("MappingsDiscovered")
    \/ Applies("SymbolsLoaded") /\ Head(channel).info # <<>>
    \/ Applies("SymbolsRemoved")

CursorValid ==
    IF exe.list = <<>> THEN exe.cursor = 0 ELSE exe.cursor < Len(exe.list)

\* C20: in every reachable state the cursor is a valid index of the list (0
\* when the list is empty), and after every update of the list the cursor
\* designates the entry with the name of the entry it designated before.
C20_CursorFollowsName ==
    /\ []CursorValid
    /\ [][(UpdatesList /\ exe.list # <<>>) =>
             exe'.list[exe'.cursor + 1].name = exe.list[exe.cursor + 1].name]_vars

\* A removal was applied last and tool, under the cursor, stands behind app
\* without its symbols.
C20_Witness ==
    /\ received # <<>>
    /\ received[Len(received)].type = "SymbolsRemoved"
    /\ exe.list = <<ExeEntry("app", 2, 1), ExeEntry("tool", NoFile, NoRanges)>>
    /\ exe.cursor = 1

(***************************************************************************)
(* Claims about the order and the algebra of the flame graph.              *)
(***************************************************************************)
\* Sibling a may stand before sibling b: a larger total, or the same total
\* and a name that is not greater.
MayPrecede(a, b) ==
    \/ a.total_value > b.total_value
    \/ a.total_value = b.total_value /\ StrRank(a.name) <= StrRank(b.name)

RECURSIVE SortedTree(_)
SortedTree(node) ==
    /\ \A i, j \in DOMAIN node.children :
          i < j => MayPrecede(node.children[i], node.children[j])
    /\ \A i \in DOMAIN node.children : SortedTree(node.children[i])

\* C23: after sort_recursive, and so after every merge of the tab that is
\* not discarded, the children at every level of the tree are ordered by
\* total_value descending, ties by name ascending.
C23_SortedAfterMerge ==
    /\ SortedTree(fg.graph.root)
    /\ SortedTree(sort_recursive(fresh.flamegraph.root))
    /\ SortedTree(FlamegraphTab_merge(fg, fresh.flamegraph, fresh.sample_count).graph.root)

\* Two profiles were merged and the tab shows t2, with the larger total,
\* before t1.
C23_Witness ==
    /\ Len(fg.graph.root.children) = 2
    /\ fg.graph.root.children[1].name = "t2"
    /\ fg.graph.root.children[1].total_value = 2
    /\ fg.graph.root.children[2].name = "t1"
    /\ fg.profiles_received = 2

\* The weights of C24: those an export computes and, add_stack taking any
\* i64, zero and a negative one.
Weights == (0 - 1)..MaxTotal

\* C24: for the tree an export is building and for the tree of the tab, for
\* every frame sequence and all weights v and w, add_stack(frames, v)
\* followed by add_stack(frames, w) gives the tree of one
\* add_stack(frames, v + w).
C24_AddStackAdditive ==
    \A frames \in Stacks \cup {<<>>}, v, w \in Weights :
        /\ AddSample(AddSample(fresh, frames, v), frames, w) = AddSample(fresh, frames, v + w)
        /\ add_stack(add_stack(fg.graph, frames, v), frames, w)
              = add_stack(fg.graph, frames, v + w)

\* The export has filed two stacks that share the thread t1, and the tab
\* holds a merged profile.
C24_Witness ==
    /\ fresh.sample_count = 2
    /\ Len(fresh.flamegraph.root.children) = 1
    /\ Len(fresh.flamegraph.root.children[1].children) = 2
    /\ fg.profiles_received = 1

\* A tab that is not frozen and shows the graph.
TabShowing(graph) == [FlamegraphTab_default EXCEPT !.graph = graph]

\* C25: merging an empty graph into a graph a leaves a unchanged, and
\* merge(a, b) and merge(b, a) are the same tree once sorted with
\* sort_recursive; a and b are the graph of the tab and the graph an export
\* is building, merged as trees and merged by the tab.
C25_MergeIdentityAndCommutes ==
    LET a == fg.graph
        b == fresh.flamegraph
    IN /\ FlameNode_merge(a.root, FlameGraph_new.root) = a.root
       /\ FlameNode_merge(b.root, FlameGraph_new.root) = b.root
       /\ FlamegraphTab_merge(TabShowing(a), FlameGraph_new, 0).graph = a
       /\ sort_recursive(FlameNode_merge(a.root, b.root))
             = sort_recursive(FlameNode_merge(b.root, a.root))
       /\ FlamegraphTab_merge(TabShowing(a), b, 0).graph
             = FlamegraphTab_merge(TabShowing(b), a, 0).graph

\* The tab and the export both hold thread t1, with different frames below
\* it, and the merge of the one into the other differs from the merge of
\* the other into the one before they are sorted.
C25_Witness ==
    /\ fg.graph.root.children # <<>>
    /\ fresh.flamegraph.root.children # <<>>
    /\ \E i \in DOMAIN fg.graph.root.children, j \in DOMAIN fresh.flamegraph.root.children :
          /\ fg.graph.root.children[i].name = fresh.flamegraph.root.children[j].name
          /\ fg.graph.root.children[i].children # fresh.flamegraph.root.children[j].children
    /\ FlameNode_merge(fg.graph.root, fresh.flamegraph.root)
          # FlameNode_merge(fresh.flamegraph.root, fg.graph.root)

\* The main loop applies the ProfileUpdate of an export that filed samples:
\* the graph of the export is consumed.
ConsumesExport == fresh # FreshExport /\ fresh' = FreshExport

\* C30: while frozen is true, applying a ProfileUpdate leaves the flame
\* graph, profiles_received and samples_received (the whole tab) unchanged,
\* and the update is not kept for later: the graph only ever changes by a
\* reset or by the merge of the update applied in that very step while not
\* frozen.  A step that toggles frozen changes nothing else.
C30_FrozenDiscardsUpdates ==
    [][/\ (ConsumesExport /\ fg.frozen) => fg' = fg
       /\ fg'.graph # fg.graph =>
             \/ fg' = FlamegraphTab_reset(fg)
             \/ /\ ~fg.frozen
                /\ fg' = FlamegraphTab_merge(fg, fresh.flamegraph, fresh.sample_count)
       /\ fg'.frozen # fg.frozen =>
             /\ fg' = [fg EXCEPT !.frozen = ~@]
             /\ fresh' = fresh]_vars

\* The tab is frozen on a merged profile of one sample while an export has
\* filed MaxTotal - 1 samples, whose update the tab is about to receive.
C30_Witness ==
    /\ fg.frozen
    /\ fg.profiles_received = 1
    /\ fg.graph.root.total_value = 1
    /\ fresh.sample_count = MaxTotal - 1
(***************************************************************************)
(* Claims about the flamescope grid layout.                                *)
(***************************************************************************)

C29_RowsInsideTallArea ==
    \A l \in Range(layout) :
        l.area.height >= GRID_ROWS =>
            /\ l.cell_h >= 1
            /\ \A row \in 1..(GRID_ROWS - 1) :
                  row_y(l, row) - row_y(l, row - 1) = l.cell_h
            /\ row_y(l, 0) >= l.area.y
            /\ row_y(l, GRID_ROWS - 1) + l.cell_h <= bottom(l)

(***************************************************************************)
(* Claims about the keys of the TUI.                                       *)
(***************************************************************************)
IsCtrlC(key) == key.code = "Char" /\ key.c = "c" /\ key.ctrl

\* The texts of the overlays that are open in st.
OpenInputs(st) ==
    [overlay \in {o \in {"fg", "fs", "exe"} :
                     CASE o = "fg" -> st.fg.search.active
                       [] o = "fs" -> st.fs.search.active
                       [] o = "exe" -> st.exe.path_input.active} |->
        CASE overlay = "fg" -> st.fg.search.input
          [] overlay = "fs" -> st.fs.search.input
          [] overlay = "exe" -> st.exe.path_input.input]

\* C21: Ctrl-C sets running = false in every state (any tab, overlay open or
\* not) and yields no action; q or Q sets running = false only when no
\* overlay is open, and when an overlay is open the key does not quit but is
\* handed to the overlay as input.  Once running is false no key sets it
\* back to true.
C21_QuitKeys ==
    \A key \in Keys, listing \in Listings :
        LET handled == State_handle_key(TheState, key, listing)
            stopped == State_handle_key([TheState EXCEPT !.running = FALSE], key, listing)
        IN  /\ IsCtrlC(key) =>
                  /\ ~handled.state.running
                  /\ handled.action = Action_None
            /\ IsChar(key, {"q", "Q"}) /\ ~overlay_active(TheState) =>
                  /\ ~handled.state.running
                  /\ handled.action = Action_None
            /\ IsChar(key, {"q", "Q"}) /\ overlay_active(TheState) =>
                  /\ handled.state.running = running
                  /\ handled.action = Action_None
                  /\ DOMAIN OpenInputs(handled.state) = DOMAIN OpenInputs(TheState)
                  /\ \A overlay \in DOMAIN OpenInputs(TheState) :
                        OpenInputs(handled.state)[overlay]
                            = Append(OpenInputs(TheState)[overlay], key.c)
            /\ ~stopped.state.running

\* A q was typed into the path input, which is still open, and Ctrl-C has
\* then stopped the program.
C21_Witness ==
    /\ ~running
    /\ active_tab = "Executables"
    /\ exe.path_input.active
    /\ exe.path_input.input = <<"q">>

\* C22: with no overlay open, Tab advances active_tab in the cycle
\* Flamegraph, Flamescope, Executables, Flamegraph and changes nothing else
\* in the state; with an overlay open, Tab never changes active_tab.
C22_TabCycle ==
    \A listing \in Listings :
        LET handled == State_handle_key(TheState, Code("Tab"), listing)
        IN  IF overlay_active(TheState)
            THEN handled.state.active_tab = active_tab
            ELSE /\ handled.state.active_tab =
                        (CASE active_tab = "Flamegraph" -> "Flamescope"
                           [] active_tab = "Flamescope" -> "Executables"
                           [] active_tab = "Executables" -> "Flamegraph")
                 /\ handled.state.running = running
                 /\ handled.state.fg = fg
                 /\ handled.state.fs = flamescope
                 /\ handled.state.exe = exe
                 /\ handled.action = Action_None

\* Two Tabs have led to the executables tab and a third, pressed in its path
\* input, has replaced the typed q by the first completion.
C22_Witness ==
    /\ active_tab = "Executables"
    /\ exe.path_input.active
    /\ exe.path_input.completions # <<>>
    /\ exe.path_input.input = <<"Q">>

(***************************************************************************)
(* Claims about the search of the flame-graph tab.                         *)
(***************************************************************************)

\* The positions of the children whose name contains the text, whatever the
\* case of either; every position when the text is empty.
Hits(children, text) ==
    {i \in DOMAIN children :
        text = <<>> \/ contains(to_lowercase(Chars(children[i].name)), to_lowercase(text))}

\* matches lists exactly the children that contain the text, in their order,
\* each with its name and its index.
IsMatchList(matches, children, text) ==
    /\ Len(matches) = Cardinality(Hits(children, text))
    /\ \A k \in DOMAIN matches :
          /\ matches[k][2] + 1 \in Hits(children, text)
          /\ matches[k][1] = children[matches[k][2] + 1].name
    /\ \A k, m \in DOMAIN matches : k < m => matches[k][2] < matches[m][2]

\* C26 as stated: in flame-graph search mode the match list is exactly the
\* children of the node designated by zoom_path whose names contain the
\* query case-insensitively (all of them when the query is empty).
C26_MatchesOfZoomedNode ==
    fg.search.active =>
        IsMatchList(fg.search.matches,
                    get_zoom_node(fg.graph.root, fg.zoom_path).children,
                    fg.search.input)

\* C26, amended: the match list is computed when the search opens and at
\* every typed character and Backspace, over the children of the root of
\* the graph (the threads) whatever zoom_path is: it is then exactly the
\* threads whose names contain the query case-insensitively (all of them
\* when the query is empty).  Any other step, a merged profile update
\* included, leaves the list of an open search as it was.
C26_MatchesOfThreads ==
    [][/\ fg'.search.active /\ (~fg.search.active \/ fg'.search.input # fg.search.input)
          => IsMatchList(fg'.search.matches, fg'.graph.root.children, fg'.search.input)
       /\ fg.search.active /\ fg'.search.active /\ fg'.search.input = fg.search.input
          => \/ fg'.search.matches = fg.search.matches
             \/ /\ fg'.graph = fg.graph
                /\ IsMatchList(fg'.search.matches, fg'.graph.root.children,
                               fg'.search.input)]_vars

\* The search is open on a graph zoomed into the thread Main, the query M is
\* typed in upper case, and the list holds the thread Main, which is not a
\* child of the zoomed node.
C26_Witness ==
    /\ fg.search.active
    /\ fg.zoom_path = <<"Main">>
    /\ fg.search.input = <<"M">>
    /\ fg.search.matches = << <<"Main", 0>> >>

(***************************************************************************)
(* Claims about the path input of the executables tab.                     *)
(***************************************************************************)

\* The path input is open and keys reach it.
InPathInput == active_tab = "Executables" /\ exe.path_input.active

\* The text without the spaces around it: the longest part of the text that
\* neither starts nor ends with a space.
Trimmed(text) ==
    IF \A i \in DOMAIN text : text[i] = " " THEN <<>>
    ELSE LET first == CHOOSE i \in DOMAIN text :
                          text[i] # " " /\ \A j \in 1..(i - 1) : text[j] = " "
             last == CHOOSE i \in DOMAIN text :
                         text[i] # " " /\ \A j \in (i + 1)..Len(text) : text[j] = " "
         IN  SubSeq(text, first, last)

InputEnded == handler.pc \in {"done", "panicked"}

\* C28: after the shared running flag is cleared by EventHandler::stop, the
\* handler thread eventually leaves its loop and terminates (its terminal
\* poll always has a timeout), and it sends no event after it has observed
\* the cleared flag.
C28_InputThreadStops ==
    /\ ~events_running ~> InputEnded
    /\ [][handler.observed => channel' = channel /\ handler'.pc = "done"]_vars
    /\ [](handler.pc = "done" <=> handler.observed)

\* No crossterm event ever arrived: the polls of the thread timed out, it
\* sent one Tick, and after stop cleared the flag it loaded the cleared flag
\* and left its loop.
C28_Witness ==
    /\ ~events_running
    /\ handler.pc = "done"
    /\ handler.observed
    /\ terminal.queue = <<>>
    /\ terminal.arrived = 0
    /\ channel = <<[type |-> "Tick"]>>

(***************************************************************************)
(* Claims about the reach of the reverse scan of lookup.                   *)
(***************************************************************************)
\* The rows of file fid a frame of lookup(fid, addr) may come from: those that
\* start at or after the greatest depth-0 key of fid with va_start <= addr
\* (every row of fid when there is no such key).
RowsAfterDepthZero(fid, addr) ==
    LET zeros == {x \in ranges : x.file_id = fid /\ x.depth = 0 /\ x.va_start <= addr}
    IN {x \in ranges :
          /\ x.file_id = fid
          /\ \A z \in zeros : x.va_start >= z.va_start}

FrameOfRow(row) ==
    ResolvedFrame(resolve_string(strings, row.file_id, row.func_ref), row.depth)

\* Every frame of res comes from a row of its own among rows: no frame occurs
\* in res more often than there are rows that give it.
FramesComeFrom(res, rows) ==
    \A i \in DOMAIN res :
        Cardinality({j \in DOMAIN res : res[j] = res[i]})
            <= Cardinality({x \in rows : FrameOfRow(x) = res[i]})

\* C31: in every state of the store, for every file id and address, the result
\* of lookup(fid, addr) holds at most one depth-0 frame, and each of its
\* frames comes from a row of the ranges partition stored under fid whose
\* va_start is at least the va_start of the greatest depth-0 key of fid with
\* va_start <= addr; no frame comes from a row of another file id.
C31_ScanStopsAtDepthZero ==
    \A fid \in FileIds, addr \in Addrs :
        \A res \in lookup(ranges, strings, fid, addr) :
            /\ Cardinality({i \in DOMAIN res : res[i].depth = 0}) <= 1
            /\ FramesComeFrom(res, RowsAfterDepthZero(fid, addr))

\* C31 witness: two depth-0 rows of file 1 cover the same address, the store
\* holds rows of file 2 as well, and lookup returns the one frame of the row
\* that starts later.
C31_Witness ==
    \E addr \in Addrs, a, b \in ranges :
        /\ a.file_id = 1 /\ b.file_id = 1
        /\ a.depth = 0 /\ b.depth = 0
        /\ a.va_start < b.va_start /\ b.va_start <= addr
        /\ addr < a.va_start + a.length /\ addr < b.va_start + b.length
        /\ \E x \in ranges : x.file_id = 2
        /\ lookup(ranges, strings, 1, addr) = {<<FrameOfRow(b)>>}

(***************************************************************************)
(* Claims about the samples that process_export skips.                     *)
(***************************************************************************)
\* stack_index is an index of the stack table other than 0.
NamesAStack(dict, stack_index) ==
    stack_index \in 1..(Len(dict.stack_table) - 1)

\* The location indices of a stack that are indices of the location table.
InRangeLocations(dict, stack_index) ==
    LET indices == dict.stack_table[stack_index + 1].location_indices
    IN {k \in DOMAIN indices : indices[k] \in 0..(Len(dict.location_table) - 1)}

\* C32: a sample whose stack_index is 0, negative or not an index of the
\* stack table changes neither the flame graph, nor the sample count, nor
\* thread_timestamps of its export, whatever timestamps or values it carries;
\* a sample with a valid stack is filed with its weight under a stack of the
\* thread name and one label for each location index that is in range, the
\* others being dropped.
C32_InvalidStackSkipped ==
    [][\A e \in ExportIds :
          TakesSample(e) =>
              LET sample == TakenSample(e)
                  dict == exports[e].req.dictionary[1]
              IN IF NamesAStack(dict, sample.stack_index)
                 THEN /\ Len(StackUsed(e)) =
                             1 + Cardinality(InRangeLocations(dict, sample.stack_index))
                      /\ AddsWeight(e, StackUsed(e), ClaimedWeight(sample))
                 ELSE /\ exports'[e].flamegraph = exports[e].flamegraph
                      /\ exports'[e].sample_count = exports[e].sample_count
                      /\ exports'[e].thread_timestamps = exports[e].thread_timestamps]_vars

\* C32 witness: an export has taken a sample whose stack index is the length
\* of the stack table, carrying a value and a timestamp, and then a sample of
\* stack 2, whose location index 9 names no location: only the second one
\* is counted, under a stack of the thread and two labels, and no timestamp
\* is recorded.
C32_Witness ==
    /\ exports[1].req.samples = <<Sample(3, <<1>>, <<2>>, <<7>>),
                                  Sample(2, <<1>>, <<2, 1>>, <<>>)>>
    /\ exports[1].next = 3
    /\ exports[1].sample_count = 3
    /\ exports[1].thread_timestamps = EmptyMap
    /\ exports[1].stack_cache[3] = <<>>
    /\ Len(exports[1].stack_cache[2]) = 3

(***************************************************************************)
(* Claims about the labels of locations without lines.                     *)
(***************************************************************************)
\* "name [Native]" for the first name, "name [Native] [Inline]" for the
\* following ones, joined by " / ".
RECURSIVE NativeLabel(_, _)
NativeLabel(names, i) ==
    IF i > Len(names) THEN ""
    ELSE (IF i = 1 THEN names[i] \o " [Native]"
          ELSE " / " \o names[i] \o " [Native] [Inline]")
         \o NativeLabel(names, i + 1)

\* The results of lookup that give a location without lines its label: those
\* with at least one frame, for a native location whose mapping's basename is
\* in the basename index.
StoreHits(location, dict) ==
    LET base == resolve_mapping_filename(location, dict)
    IN IF resolve_frame_type(location, dict) = "Native" /\ base \in DOMAIN basename_index
       THEN {res \in lookup(ranges, strings, basename_index[base], location.address) :
                res # <<>>}
       ELSE {}

AddressLabel(location, dict) ==
    resolve_mapping_filename(location, dict) \o "+0x" \o Hex016(location.address)

\* The labels of a location without lines, given the label of the cases
\* without a frame of the store: a failed read of the store is always among
\* the cases.
LabelsWith(location, dict, unsymbolized) ==
    {NativeLabel([i \in DOMAIN res |-> res[i].func], 1) : res \in StoreHits(location, dict)}
        \cup {unsymbolized}

\* The location cache of export e, once pre_resolve_locations has returned.
HasCache(e) == exports[e].pc \notin {"idle", "start"} /\ exports[e].req.dictionary # <<>>

LinelessLocations(dict) ==
    {i \in DOMAIN dict.location_table : dict.location_table[i].lines = <<>>}

\* C33 as stated: a location with no lines is labelled with the names of the
\* store lookup, 'name [Native]' then 'name [Native] [Inline]' joined by
\* ' / ', when its tag is Native, its mapping's basename is in the basename
\* index and lookup returns a frame; in every other case its label is
\* '<mapping_basename>+0x<address as 16 hex digits> [tag]'.
C33_LabelWithTag ==
    \A i \in LinelessLocations(Dict) :
        LET location == Dict.location_table[i]
            stated == LabelsWith(location, Dict,
                                 AddressLabel(location, Dict) \o " ["
                                     \o resolve_frame_type(location, Dict) \o "]")
        IN /\ LocationLabels(ranges, strings, basename_index, location, Dict) = stated
           /\ \A e \in ExportIds : HasCache(e) => exports[e].location_cache[i] \in stated

\* C33 amended: the same, where the label of the other cases ends in ' [tag]'
\* only when the tag is not empty: a location whose profile.frame.type is the
\* empty string is labelled '<mapping_basename>+0x<16 hex digits>'.
C33_LabelWithNonEmptyTag ==
    \A i \in LinelessLocations(Dict) :
        LET location == Dict.location_table[i]
            tag == resolve_frame_type(location, Dict)
            stated == LabelsWith(location, Dict,
                                 IF tag = "" THEN AddressLabel(location, Dict)
                                 ELSE AddressLabel(location, Dict) \o " [" \o tag \o "]")
        IN /\ LocationLabels(ranges, strings, basename_index, location, Dict) = stated
           /\ \A e \in ExportIds : HasCache(e) => exports[e].location_cache[i] \in stated

\* C33 witness: an export has resolved the locations of the dictionary: the
\* native one at address 1 of app through the store, the native ones at
\* address 2 (no range covers it) and in [vdso] (not in the index) by their
\* address, as the ones tagged with the empty string and with kernel.
C33_Witness ==
    /\ HasCache(1)
    /\ exports[1].location_cache[4] = "foo [Native] / bar [Native] [Inline]"
    /\ exports[1].location_cache[5] = "app+0x0000000000000002 [Native]"
    /\ exports[1].location_cache[6] = "[vdso]+0x0000000000000001 [Native]"
    /\ exports[1].location_cache[7] = "app+0x0000000000000001"
    /\ exports[1].location_cache[8] = "app+0x0000000000000001 [Kernel]"

(***************************************************************************)
(* Claims about the three overlays together.                               *)
(***************************************************************************)
\* The tabs whose overlay is open in state st.
OpenOverlays(st) ==
    {tab \in {"Flamegraph", "Flamescope", "Executables"} :
        \/ tab = "Flamegraph" /\ st.fg.search.active
        \/ tab = "Flamescope" /\ st.fs.search.active
        \/ tab = "Executables" /\ st.exe.path_input.active}

\* The states the arms of the main loop for the events of the bus give.
AfterBusEvent(st) ==
    {[st EXCEPT !.fg = FlamegraphTab_merge(@, GraphOf(stacks), Len(stacks))] :
        stacks \in KeyExports}
    \cup {[st EXCEPT !.exe = merge_discovered_mappings(@, names)] : names \in DiscoveredNames}
    \cup {[st EXCEPT !.exe = update_symbolized(@, name, ExecutableInfo(1, "tool", 2))] :
              name \in {"app", "tool"}}
    \cup {[st EXCEPT !.exe = clear_symbols(@, name)] : name \in {"app", "tool"}}

\* C34: in every reachable state at most one of the three overlays is open
\* and an open overlay is the one of the active tab; every key event and
\* every event of the bus leads to such a state again, the events of the bus
\* leaving the overlays and the active tab as they are.
C34_OneOverlayOfActiveTab ==
    /\ OpenOverlays(TheState) \subseteq {active_tab}
    /\ \A key \in Keys, listing \in Listings :
          LET after == State_handle_key(TheState, key, listing).state
          IN OpenOverlays(after) \subseteq {after.active_tab}
    /\ \A after \in AfterBusEvent(TheState) :
          /\ OpenOverlays(after) = OpenOverlays(TheState)
          /\ after.active_tab = active_tab

\* C34 witness: the search overlay of the flamescope is open on the
\* flamescope tab and holds a typed q, the other two overlays are closed,
\* and a profile update has been merged.
C34_Witness ==
    /\ active_tab = "Flamescope"
    /\ flamescope.search.active
    /\ flamescope.search.input = <<"q">>
    /\ OpenOverlays(TheState) = {"Flamescope"}
    /\ fg.profiles_received = 1
    /\ running

(***************************************************************************)
(* Claims about the basename index and a restart.                          *)
(***************************************************************************)
\* Every call of store_file_symbols and remove_file_symbols has returned.
AllReturned == \A w \in Workers : workers[w].op = "idle" \/ workers[w].pc = "done"

\* C35: after any sequence of store_file_symbols and remove_file_symbols the
\* in-memory basename index equals the index that open() rebuilds from the
\* files partition, so file_id_for_basename answers alike before and after a
\* restart, and every row of the files partition has an index entry for its
\* basename.
C35_IndexSurvivesRestart ==
    AllReturned =>
        /\ basename_index = OpenIndex(files, <<>>)
        /\ \A name \in {"app", "tool"} :
              file_id_for_basename(basename_index, name)
                  = file_id_for_basename(OpenIndex(files, <<>>), name)
        /\ \A row \in files :
              basename_of(Segments(row.file_name)) \in DOMAIN basename_index

(***************************************************************************)
(* Claims about a load of symbols for a chosen entry.                      *)
(***************************************************************************)
\* The main loop takes a SymbolsLoaded event that carries Ok(info).
AppliesSymbolsLoaded ==
    /\ channel # <<>>
    /\ channel' = Tail(channel)
    /\ Head(channel).type = "SymbolsLoaded"
    /\ Head(channel).info # <<>>

\* C36: once the SymbolsLoaded Ok event of a load for entry T has been
\* applied, file_id_for_basename(T) returns the loaded file id and the entry
\* T shows that file id.
C36_TargetResolvesToLoadedFile ==
    [][AppliesSymbolsLoaded =>
          LET event == Head(channel)
              p == PositionOf(exe'.list, event.target_name)
          IN /\ file_id_for_basename(basename_index', event.target_name)
                    = event.info[1].file_id
             /\ p < Len(exe'.list)
             /\ exe'.list[p + 1].file_id = event.info[1].file_id]_vars

(***************************************************************************)
(* Claims about the executables list and the files partition at rest.      *)
(***************************************************************************)
\* Every worker thread has ended and the main loop has taken every event.
AtRest == NoCallRunning /\ channel = <<>>

\* C37: once all load and removal workers have finished and all their events
\* have been applied, an executables entry shows file id f if and only if
\* the files partition of the store holds f, whatever the interleaving.
C37_EntriesMatchStore ==
    AtRest =>
        \A f \in FileIds :
            (\E i \in DOMAIN exe.list : exe.list[i].file_id = f)
                <=> (\E row \in files : row.file_id = f)

(***************************************************************************)
(* Claims about the counters of the flame-graph tab.                       *)
(***************************************************************************)
\* The sum of total_value over the per-thread roots of the graph of a tab.
ThreadTotals(tab) ==
    SeqSum([i \in DOMAIN tab.graph.root.children |->
               tab.graph.root.children[i].total_value])

SameCounters ==
    /\ fg'.profiles_received = fg.profiles_received
    /\ fg'.samples_received = fg.samples_received

\* C38: in every reachable state samples_received is the sum of total_value
\* over the per-thread roots of the graph of the tab; a ProfileUpdate that
\* is merged adds 1 to profiles_received and its sample count to
\* samples_received, one that arrives while the tab is frozen and every other
\* step but a reset leave both as they are, and a reset sets both to 0.
C38_CountersMatchGraph ==
    /\ [](fg.samples_received = ThreadTotals(fg))
    /\ [][/\ (FlameProfileUpdate /\ ~fg.frozen) =>
               /\ fg'.profiles_received = fg.profiles_received + 1
               /\ fg'.samples_received = fg.samples_received + fresh.sample_count
          /\ (FlameProfileUpdate /\ fg.frozen) => SameCounters
          /\ FlameReset =>
               /\ fg'.profiles_received = 0
               /\ fg'.samples_received = 0
               /\ ThreadTotals(fg') = 0
          /\ FlameToggleFrozen => SameCounters
          /\ (\E frames \in Stacks, weight \in 1..MaxTotal :
                  FlameAddStack(frames, weight)) => SameCounters]_vars

\* C38 witness: two profiles have been merged since the last reset, with
\* three samples between them under two threads.
C38_Witness ==
    /\ fg.profiles_received = 2
    /\ fg.samples_received = 3
    /\ Len(fg.graph.root.children) = 2
    /\ ThreadTotals(fg) = 3

(***************************************************************************)
(* Claims about the zoom path and the cursor path.                         *)
(***************************************************************************)
\* The names of path are a chain of nodes below node.
RECURSIVE ChainExists(_, _)
ChainExists(node, path) ==
    \/ path = <<>>
    \/ /\ ChildIndex(node.children, Head(path)) # 0
       /\ ChainExists(node.children[ChildIndex(node.children, Head(path))], Tail(path))

\* Every index of path is an index of a child of the node it descends from.
RECURSIVE IndicesInRange(_, _)
IndicesInRange(node, path) ==
    \/ path = <<>>
    \/ /\ Head(path) < Len(node.children)
       /\ IndicesInRange(node.children[Head(path) + 1], Tail(path))

C39_ZoomPathExists == ChainExists(fg.graph.root, fg.zoom_path)

\* C39: in every reachable state of the flame-graph tab zoom_path names an
\* existing chain of nodes from the root, and every index of cursor_path is
\* in range for the node it descends from, starting at the zoomed node.
C39_PathsStayValid ==
    /\ C39_ZoomPathExists
    /\ IndicesInRange(get_zoom_node(fg.graph.root, fg.zoom_path), fg.cursor_path)

(***************************************************************************)
(* Claims about num_ranges and the keys of the ranges partition.           *)
(***************************************************************************)
\* The (va_start, depth) pairs of the ranges of a FileSym.
KeyPairs(file_sym) ==
    {<<file_sym.ranges[i].va_start, file_sym.ranges[i].depth>> : i \in DOMAIN file_sym.ranges}

DistinctKeys(file_sym) == Cardinality(KeyPairs(file_sym)) = Len(file_sym.ranges)

\* C40 as stated: for every row of the files partition, num_ranges equals
\* the number of keys with the row's file id prefix in the ranges partition.
C40_NumRangesIsKeyCount ==
    \A row \in files :
        row.num_ranges = Cardinality(PrefixKeys(ranges, row.file_id))

\* C40 amended: for every row of the files partition, num_ranges is the
\* number of ranges of the FileSym stored, and the number of keys with the
\* row's prefix is the number of distinct (va_start, depth) pairs among
\* them: the two are equal when no two ranges of the FileSym share va_start
\* and depth.
C40_NumRangesIsKeyCountIfDistinct ==
    \A row \in files :
        LET file_sym == catalog[row.file_id]
            keys == Cardinality(PrefixKeys(ranges, row.file_id))
        IN /\ row.num_ranges = Len(file_sym.ranges)
           /\ keys = Cardinality(KeyPairs(file_sym))
           /\ DistinctKeys(file_sym) => row.num_ranges = keys

\* C40 witness: executable 1 has been stored with two ranges of different
\* keys beside executable 2, and each row counts the keys of its file id.
C40_Witness ==
    /\ ReturnedOk(1, "store")
    /\ workers[1].fid = 1
    /\ DistinctKeys(catalog[1])
    /\ \E row \in files :
          /\ row.file_id = 1
          /\ row.num_ranges = 2
          /\ Cardinality(PrefixKeys(ranges, 1)) = 2
    /\ \E row \in files :
          /\ row.file_id = 2
          /\ row.num_ranges = Cardinality(PrefixKeys(ranges, 2))

====
